---------------------------- MODULE Spec2Model ----------------------------
(***************************************************************************)
(* A model of the SEC 8-K extraction pipeline: the chunker (chunk.js), the *)
(* evidence locator and the rule extractor (extract-manual.js) and the     *)
(* evidence validator (validate.js).                                       *)
(*                                                                         *)
(* JavaScript strings are modelled by TLA+ strings; offsets are 0-based as *)
(* in the source, and Slice(s, a, b) is String.prototype.slice.            *)
(***************************************************************************)
EXTENDS Integers, Sequences, FiniteSets

VARIABLES
    fullText,      \* chunk.js: the flattened text of the document's files
    manifestOk,    \* chunk.js: data/raw/<docId>/manifest.json exists
    targetSize,    \* chunk.js: --target of the latest run
    overlap,       \* chunk.js: --overlap of the latest run
    chunkFiles,    \* data/chunks/<docId>/chunk_*.txt: file name -> content
    indexJson,     \* data/chunks/<docId>/index.json: <<>> (absent) or <<index>>
    chunkStatus,   \* the chunk process: idle, done (exit 0), error (exit 1), hung
    lastWritten,   \* the files the latest chunk run wrote
    repeated,      \* the latest two chunk runs both completed, with equal parameters
    chunks,        \* extract-manual.js: the chunk list loadChunks returned
    searchText,    \* findEvidence: its candidate, <<>> (null) or <<string>>
    ev,            \* findEvidence: <<>> (not called yet) or <<outcome>>
    manifest,      \* data/raw/<docId>/manifest.json: its content, when it exists
    captured,      \* run: <<>> or <<what its patterns captured from the text>>
    extracted,     \* data/extracted/<docId>.json: <<>> (absent) or <<record>>
    extractStatus, \* the extract process: idle, done (exit 0), error (exit 1)
    call,          \* a helper of extract-manual.js called alone: <<>> or <<[fn, arg, ...]>>
    returned,      \* what the helper returned: <<>> (not yet) or <<value>>
    request,       \* server.js: the body of the request being handled
    pc,            \* server.js: the step of the handler that runs next
    started,       \* server.js: the child processes spawned so far, in order
    disk,          \* server.js: the artifacts of the document that exist
    record,        \* server.js: <<>> or <<the extraction record on disk>>
    validation,    \* validate.js: <<>> (not run) or <<[code, errors]>>
    result,        \* server.js: the result object of /api/process
    response,      \* server.js: <<>> (none yet) or <<the response sent>>
    exhibitUrls,   \* ingest.js: the exhibit URLs found in the primary document
    concurrency,   \* ingest.js: --concurrency
    rawDir,        \* data/raw/<docId>: path of a file -> the URL its content came from
    tasks,         \* ingest.js: the download tasks of the run, each with its position
    files,         \* ingest.js: the `files` array of downloadExhibits
    fetched,       \* ingest.js: the URLs the run has fetched from the network
    manifests,     \* ingest.js: what each finished run wrote in manifest.json
    ingestPc,      \* the ingest process: idle, exhibits, done (exit 0), failed
    client,        \* the AI extractor that makes the call: gemini or local
    maxRetries,    \* MAX_RETRIES
    attempt,       \* the loop variable of the retry loop
    retryPc,       \* the call: loop, request, backoff, returned, failed
    timerFired,    \* the timer of the current attempt has fired
    responds,      \* the request of the current attempt will be answered
    attempts       \* the attempts that ended, each with its outcome and the wait after it

vars == <<fullText, manifestOk, targetSize, overlap, chunkFiles, indexJson,
          chunkStatus, lastWritten, repeated, chunks, searchText, ev,
          manifest, captured, extracted, extractStatus, call, returned,
          request, pc, started, disk, record, validation, result, response,
          exhibitUrls, concurrency, rawDir, tasks, files, fetched, manifests, ingestPc,
          client, maxRetries, attempt, retryPc, timerFired, responds, attempts>>

chunkVars == <<fullText, manifestOk, targetSize, overlap, chunkFiles, indexJson,
               chunkStatus, lastWritten, repeated>>

evidenceVars == <<chunks, searchText, ev>>

extractVars == <<manifest, captured, extracted, extractStatus>>

helperVars == <<call, returned>>

serverVars == <<request, pc, started, disk, record, validation, result, response>>

ingestVars == <<exhibitUrls, concurrency, rawDir, tasks, files, fetched, manifests, ingestPc>>

retryVars == <<client, maxRetries, attempt, retryPc, timerFired, responds, attempts>>

\* the variables of the stages run as command-line programs
cliVars == <<chunkVars, evidenceVars, extractVars, helperVars, ingestVars, retryVars>>

\* the variables of the programs other than the chunker and the rule extractor
restVars == <<serverVars, ingestVars, retryVars>>

\* the server handles no request
IdleServer ==
    /\ request = <<>>
    /\ pc = "idle"
    /\ started = <<>>
    /\ disk = {}
    /\ record = <<>>
    /\ validation = <<>>
    /\ result = <<>>
    /\ response = <<>>

\* ingest has not run
IdleIngest ==
    /\ exhibitUrls = <<>>
    /\ concurrency = 1
    /\ rawDir = [n \in {} |-> ""]
    /\ tasks = <<>>
    /\ files = <<>>
    /\ fetched = <<>>
    /\ manifests = <<>>
    /\ ingestPc = "idle"

\* no AI extractor has made a call
IdleRetry ==
    /\ client = "gemini"
    /\ maxRetries = 1
    /\ attempt = 1
    /\ retryPc = "idle"
    /\ timerFired = FALSE
    /\ responds = FALSE
    /\ attempts = <<>>

IdleRest == IdleServer /\ IdleIngest /\ IdleRetry

-----------------------------------------------------------------------------
(* Bounds of the model. *)

\* the short document texts have 0..MaxTextLen characters
MaxTextLen == 7
\* the explored --target values are 1..MaxTarget (and the default)
MaxTarget == 4
\* the explored --overlap values are 0..MaxOverlap (and the default)
MaxOverlap == 5

-----------------------------------------------------------------------------
(* JavaScript values and strings. *)

Null == <<>>
Str(s) == <<s>>
IsNull(v) == v = <<>>
Val(v) == v[1]

Min(a, b) == IF a < b THEN a ELSE b
Max(a, b) == IF a > b THEN a ELSE b

\* s.charAt(i), 0-based
CharAt(s, i) == SubSeq(s, i + 1, i + 1)

\* String.prototype.slice(a, b): negative offsets count from the end
SliceIndex(s, k) == IF k < 0 THEN Max(Len(s) + k, 0) ELSE Min(k, Len(s))
Slice(s, a, b) == SubSeq(s, SliceIndex(s, a) + 1, SliceIndex(s, b))

RECURSIVE Repeat(_, _)
Repeat(s, n) == IF n = 0 THEN "" ELSE s \o Repeat(s, n - 1)

Digits == "0123456789"
RECURSIVE NumToString(_)
\* String(n) of a natural number
NumToString(n) ==
    IF n < 10 THEN CharAt(Digits, n)
    ELSE NumToString(n \div 10) \o CharAt(Digits, n % 10)

\* String.prototype.padStart(width, "0")
PadStart(s, width) == Repeat("0", Max(width - Len(s), 0)) \o s

Letters == "abcdefghijklmnopqrstuvwxyz"
UpperLetters == "ABCDEFGHIJKLMNOPQRSTUVWXYZ"

\* the characters /\s/ matches and trim() strips, among those of the model
WhiteSpace == {" ", "\n", "\t"}
IsSpace(c) == c \in WhiteSpace

\* the characters /\w/ matches: a letter, a digit or the underscore
WordChars ==
    {CharAt(Letters, i) : i \in 0..25} \cup {CharAt(UpperLetters, i) : i \in 0..25}
        \cup {CharAt(Digits, i) : i \in 0..9} \cup {"_"}

IsWordChar(c) == c \in WordChars

\* the lower-case letter of each upper-case letter
LowerOf ==
    [c \in {CharAt(UpperLetters, i) : i \in 0..25} |->
        CharAt(Letters, CHOOSE i \in 0..25 : CharAt(UpperLetters, i) = c)]

LowerChar(c) == IF c \in DOMAIN LowerOf THEN LowerOf[c] ELSE c

RECURSIVE toLowerCase(_)
\* String.prototype.toLowerCase, half by half
toLowerCase(s) ==
    IF Len(s) <= 1 THEN LowerChar(s)
    ELSE toLowerCase(SubSeq(s, 1, Len(s) \div 2))
             \o toLowerCase(SubSeq(s, Len(s) \div 2 + 1, Len(s)))

RECURSIVE trimStart(_)
trimStart(s) ==
    IF s # "" /\ IsSpace(Head(s)) THEN trimStart(Tail(s)) ELSE s

RECURSIVE trimEnd(_)
trimEnd(s) ==
    IF s # "" /\ IsSpace(CharAt(s, Len(s) - 1))
    THEN trimEnd(SubSeq(s, 1, Len(s) - 1)) ELSE s

\* String.prototype.trim
trim(s) == trimEnd(trimStart(s))

\* String.prototype.indexOf: the first offset of w in s, or -1
indexOf(s, w) ==
    LET hits == {i \in 0..(Len(s) - Len(w)) : SubSeq(s, i + 1, i + Len(w)) = w}
    IN  IF hits = {} THEN -1 ELSE CHOOSE i \in hits : \A j \in hits : i <= j

\* String.prototype.includes
includes(s, w) == indexOf(s, w) >= 0

startsWith(s, w) == Len(w) <= Len(s) /\ SubSeq(s, 1, Len(w)) = w
endsWith(s, w) == Len(w) <= Len(s) /\ SubSeq(s, Len(s) - Len(w) + 1, Len(s)) = w

\* the end of the run of whitespace of s that starts at offset i
RECURSIVE spaceRunEnd(_, _)
spaceRunEnd(s, i) ==
    IF i < Len(s) /\ IsSpace(CharAt(s, i)) THEN spaceRunEnd(s, i + 1) ELSE i

\* the end of the run of non-whitespace of s that starts at offset i
RECURSIVE wordEnd(_, _)
wordEnd(s, i) ==
    IF i < Len(s) /\ ~IsSpace(CharAt(s, i)) THEN wordEnd(s, i + 1) ELSE i

\* s.split(/\s+/): the pieces between the runs of whitespace; a leading or a
\* trailing run gives an empty piece, and "" gives the one piece ""
RECURSIVE splitSpaces(_)
splitSpaces(s) ==
    LET e == wordEnd(s, 0)
    IN  IF e = Len(s) THEN <<s>>
        ELSE <<Slice(s, 0, e)>> \o splitSpaces(Slice(s, spaceRunEnd(s, e), Len(s)))

\* the order of the UTF-16 code units of the characters of file names
CodeOrder == ".0123456789ABCDEFGHIJKLMNOPQRSTUVWXYZ_abcdefghijklmnopqrstuvwxyz"
CodeOf(c) == indexOf(CodeOrder, c)

\* a < b as Array.prototype.sort compares strings
RECURSIVE StrLess(_, _)
StrLess(a, b) ==
    IF a = "" THEN b # ""
    ELSE IF b = "" THEN FALSE
    ELSE IF Head(a) = Head(b) THEN StrLess(Tail(a), Tail(b))
    ELSE CodeOf(Head(a)) < CodeOf(Head(b))

RECURSIVE sortNames(_)
\* the names of a set in sorted order
sortNames(S) ==
    IF S = {} THEN <<>>
    ELSE LET m == CHOOSE x \in S : \A y \in S \ {x} : StrLess(x, y)
         IN  <<m>> \o sortNames(S \ {m})


-----------------------------------------------------------------------------
(* chunk.js: chunkText and saveChunks. *)

RECURSIVE chunkLoop(_, _, _, _, _)
\* The while loop of chunkText from the iteration that starts at `start`.
\* returns = FALSE stands for the loop that never ends: once a chunk ends
\* before the end of the text and start does not advance (target <= overlap),
\* every later start is <= this one and every later end is <= this end, so
\* neither the loop condition nor the break can ever stop it.
chunkLoop(text, target, ovl, start, acc) ==
    IF ~(start < Len(text)) THEN [returns |-> TRUE, chunks |-> acc]
    ELSE LET end == Min(start + target, Len(text))
             slice == Slice(text, start, end)
             pushed == Append(acc, [start |-> start, end |-> end, text |-> slice])
         IN  IF end = Len(text) THEN [returns |-> TRUE, chunks |-> pushed]
             ELSE IF target - ovl <= 0 THEN [returns |-> FALSE, chunks |-> pushed]
             ELSE chunkLoop(text, target, ovl, start + (target - ovl), pushed)

\* mutant: the loop advances by the whole target, forgetting the overlap
chunkTextNoOverlap(text, target, ovl) == chunkLoop(text, target, 0, 0, <<>>)

\* mutant: the loop advances one character too far
chunkTextStepOff(text, target, ovl) == chunkLoop(text, target, ovl - 1, 0, <<>>)

chunkText(text, target, ovl) == chunkLoop(text, target, ovl, 0, <<>>)

\* `chunk_${String(i + 1).padStart(4, "0")}.txt` for the 0-based i
chunkFileName(i) == "chunk_" \o PadStart(NumToString(i + 1), 4) \o ".txt"

RECURSIVE SumLen(_)
SumLen(cs) == IF cs = <<>> THEN 0 ELSE Len(Head(cs).text) + SumLen(Tail(cs))

\* What saveChunks does to the directory `dir`, its files numbered from
\* `first` (0 in the source): the directory after it (written files replace,
\* others stay), the index.json it writes and the names it wrote.
saveChunksFrom(dir, cs, first) ==
    LET name(i) == chunkFileName(first + i - 1)
        names == {name(i) : i \in 1..Len(cs)}
    IN  [files |-> [n \in DOMAIN dir \cup names |->
                       IF n \in names
                       THEN cs[CHOOSE i \in 1..Len(cs) : name(i) = n].text
                       ELSE dir[n]],
         index |-> [totalLength |-> SumLen(cs),
                    chunks |-> [i \in 1..Len(cs) |->
                                   [file |-> name(i),
                                    start |-> cs[i].start, end |-> cs[i].end]]],
         written |-> names \cup {"index.json"}]

\* mutant: the files are numbered after those already in the directory
saveChunksAppend(dir, cs) == saveChunksFrom(dir, cs, Cardinality(DOMAIN dir))

saveChunks(dir, cs) == saveChunksFrom(dir, cs, 0)

-----------------------------------------------------------------------------
(* extract-manual.js: loadChunks and findEvidence. *)

\* CHUNK_DIR exists once a chunk run has reached saveChunks (fs.ensureDir)
chunkDirExists == indexJson # <<>>

\* loadChunks(chunkDir): the chunk_*.txt files in sorted order, [] without
\* the directory
loadChunks(exists, dir) ==
    IF ~exists THEN <<>>
    ELSE LET names == sortNames({f \in DOMAIN dir \cup {"index.json"} :
                                    endsWith(f, ".txt") /\ startsWith(f, "chunk_")})
         IN  [i \in 1..Len(names) |-> [file |-> names[i], text |-> dir[names[i]]]]

\* the characters of context kept before and after a match
SnippetContext == 80
\* the longest snippet, and the window after a fuzzy anchor
SnippetMax == 200
\* the candidate words the fuzzy tier counts
FuzzyWords == 6
\* the fuzzy tier keeps the words longer than this
FuzzyMinLen == 3
\* a candidate of more words than this may be suspicious
SuspiciousWords == 8

MarkerSnippet == "Invalid search text - no evidence found"

Boilerplate == {"provisions", "warranties", "obligations", "not applicable", "unknown"}

\* /\b(provisions|warranties|obligations|not applicable|unknown)\b/i.test(s)
hasBoilerplate(s) ==
    \E kw \in Boilerplate : \E i \in 0..(Len(s) - Len(kw)) :
        /\ toLowerCase(Slice(s, i, i + Len(kw))) = kw
        /\ (i = 0 \/ ~IsWordChar(CharAt(s, i - 1)))
        /\ (i + Len(kw) = Len(s) \/ ~IsWordChar(CharAt(s, i + Len(kw))))

\* mutant: the suspicious-text test is skipped
isSuspiciousNever(norm) == FALSE

\* the test of line 109
isSuspicious(norm) ==
    hasBoilerplate(norm) /\ Len(splitSpaces(norm)) > SuspiciousWords

\* what findEvidence returns (sourceUrl, the manifest's constant primary_url,
\* and sourceSection are left out), or the TypeError it throws
Evidence(file, snippet) ==
    [threw |-> FALSE, sourceFile |-> file,
     selector |-> "chunk:" \o file, snippet |-> snippet]

Thrown == [threw |-> TRUE, sourceFile |-> "", selector |-> "", snippet |-> ""]

\* mutant: the placeholder keeps the whole text of the first chunk
firstChunkEvidenceWhole(cs) ==
    IF cs = <<>> THEN Evidence("unknown", "") ELSE Evidence(cs[1].file, cs[1].text)

\* lines 98-105 and 164-171: the first chunk as a placeholder
firstChunkEvidence(cs) ==
    IF cs = <<>> THEN Evidence("unknown", "")
    ELSE Evidence(cs[1].file, Slice(cs[1].text, 0, SnippetMax))

\* lines 110-116: the "no evidence" marker
markerEvidence(cs) ==
    Evidence(IF cs = <<>> THEN "unknown" ELSE cs[1].file, MarkerSnippet)

\* The regular expression of lines 119-120 matched at offset pos of the
\* text, from the i-th piece of the candidate on: the pieces of the candidate
\* between its runs of whitespace match literally and without regard to case
\* (text and pieces are given in lower case), and each run of whitespace
\* matches as \s+. The end of the match, or -1.
\* (\s+ takes the whole run: what follows it in the pattern is never
\* whitespace, so giving characters back cannot help.)
RECURSIVE matchFrom(_, _, _, _)
matchFrom(lower, pos, pieces, i) ==
    LET end == pos + Len(pieces[i])
    IN  IF end > Len(lower) THEN -1
        ELSE IF Slice(lower, pos, end) # pieces[i] THEN -1
        ELSE IF i = Len(pieces) THEN end
        ELSE IF spaceRunEnd(lower, end) = end THEN -1
        ELSE matchFrom(lower, spaceRunEnd(lower, end), pieces, i + 1)

\* text.match(re): <<>> or <<[index, length]>> of the leftmost match; the
\* flag i compares letters without regard to case
reMatch(text, pat) ==
    LET lower == toLowerCase(text)
        pieces == splitSpaces(toLowerCase(pat))
        hits == {i \in 0..Len(text) : matchFrom(lower, i, pieces, 1) >= 0}
    IN  IF hits = {} THEN <<>>
        ELSE LET i == CHOOSE i \in hits : \A j \in hits : i <= j
             IN  <<[index |-> i, length |-> matchFrom(lower, i, pieces, 1) - i]>>

\* lines 125-136: the evidence of an exact match in chunk c
exactEvidence(c, norm) ==
    LET m == reMatch(c.text, norm)[1]
        idx == m.index
        snippetStart == Max(0, idx - SnippetContext)
        snippetEnd == Min(Len(c.text),
                          idx + (IF m.length # 0 THEN m.length ELSE Len(norm))
                              + SnippetContext)
    IN  Evidence(c.file,
                 Slice(trim(Slice(c.text, snippetStart, snippetEnd)), 0, SnippetMax))

\* line 141: the words of the candidate longer than 3 characters
fuzzyWords(norm) ==
    SelectSeq(splitSpaces(norm), LAMBDA w : Len(w) > FuzzyMinLen)

\* mutant: the threshold may be 0
fuzzyThresholdZero(n) == Min(2, n \div 2)

\* line 148: Math.min(2, Math.max(1, Math.floor(words.length / 2)))
fuzzyThreshold(n) == Min(2, Max(1, n \div 2))

\* lines 144-147: how many of the first six words the chunk holds
fuzzyHits(lower, words) ==
    Cardinality({i \in 1..Min(FuzzyWords, Len(words)) :
                    includes(lower, toLowerCase(words[i]))})

fuzzyAccepts(c, words) ==
    fuzzyHits(toLowerCase(c.text), words) >= fuzzyThreshold(Len(words))

\* mutant: the window is cut from the lower-cased text
fuzzyWindowLower(text, idx) ==
    Slice(trim(Slice(toLowerCase(text), Max(0, idx - SnippetContext),
                     Min(Len(text), idx + SnippetMax))), 0, SnippetMax)

\* lines 150-159: the snippet around the anchor
fuzzyWindow(text, idx) ==
    Slice(trim(Slice(text, Max(0, idx - SnippetContext),
                     Min(Len(text), idx + SnippetMax))), 0, SnippetMax)

\* lines 149-160: the evidence of a fuzzy match in chunk c. The anchor is
\* lower.indexOf of the first word (as written in the candidate) that the
\* chunk holds without regard to case; were there none, of words[0] in lower
\* case, and with no word at all words[0].toLowerCase() throws.
fuzzyEvidence(c, words) ==
    LET lower == toLowerCase(c.text)
        found == {i \in 1..Len(words) : includes(lower, toLowerCase(words[i]))}
    IN  IF found = {} /\ words = <<>> THEN Thrown
        ELSE LET w == IF found # {}
                      THEN words[CHOOSE i \in found : \A j \in found : i <= j]
                      ELSE toLowerCase(words[1])
                 idx == Max(0, indexOf(lower, w))
             IN  Evidence(c.file, fuzzyWindow(c.text, idx))

\* the chunks (by position) an exact match is found in
exactChunks(cs, norm) == {i \in 1..Len(cs) : reMatch(cs[i].text, norm) # <<>>}

\* the chunks (by position) the fuzzy tier accepts
fuzzyChunks(cs, words) == {i \in 1..Len(cs) : fuzzyAccepts(cs[i], words)}

First(S) == CHOOSE i \in S : \A j \in S : i <= j

\* findEvidence(searchText, chunks, manifest)
findEvidence(cand, cs) ==
    IF IsNull(cand) \/ Val(cand) = "" THEN firstChunkEvidence(cs)
    ELSE LET norm == trim(Val(cand))
             exact == exactChunks(cs, norm)
             words == fuzzyWords(norm)
             fuzzy == fuzzyChunks(cs, words)
         IN  IF isSuspicious(norm) THEN markerEvidence(cs)
             ELSE IF exact # {} THEN exactEvidence(cs[First(exact)], norm)
             ELSE IF fuzzy # {} THEN fuzzyEvidence(cs[First(fuzzy)], words)
             ELSE firstChunkEvidence(cs)

\* the tier of findEvidence that returns for this candidate
evidenceTier(cand, cs) ==
    IF IsNull(cand) \/ Val(cand) = "" THEN "empty"
    ELSE IF isSuspicious(trim(Val(cand))) THEN "suspicious"
    ELSE IF exactChunks(cs, trim(Val(cand))) # {} THEN "exact"
    ELSE IF fuzzyChunks(cs, fuzzyWords(trim(Val(cand)))) # {} THEN "fuzzy"
    ELSE "fallback"

\* validate.js, checkField lines 82-93: the cited chunk file exists and
\* holds the trimmed snippet
snippetVerified(dir, e) ==
    /\ e.sourceFile \in DOMAIN dir
    /\ includes(dir[e.sourceFile], trim(e.snippet))

-----------------------------------------------------------------------------
(* extract-manual.js: the helpers of the rule extractor. *)

\* a JavaScript number, nullable like Str
Num(n) == <<n>>

\* v is a string other than "": what `if (v)` and `v || w` test
TruthyStr(v) == ~IsNull(v) /\ Val(v) # ""

\* v is a number other than 0
TruthyNum(v) == ~IsNull(v) /\ Val(v) # 0

\* a || b on nullable strings
OrElse(a, b) == IF TruthyStr(a) THEN a ELSE b

\* s.charAt(i) with "" outside the string
At(s, i) == IF 0 <= i /\ i < Len(s) THEN CharAt(s, i) ELSE ""

DigitChars == {CharAt(Digits, i) : i \in 0..9}

IsDigit(c) == c \in DigitChars

\* the end of the run of digits of s that starts at offset i
RECURSIVE digitRunEnd(_, _)
digitRunEnd(s, i) ==
    IF IsDigit(At(s, i)) THEN digitRunEnd(s, i + 1) ELSE i

\* the value of a string of decimal digits
RECURSIVE parseDigits(_)
parseDigits(s) ==
    IF s = "" THEN 0
    ELSE parseDigits(SubSeq(s, 1, Len(s) - 1)) * 10
             + indexOf(Digits, CharAt(s, Len(s) - 1))

\* s.replace(/[cs]/g, "")
RECURSIVE removeChars(_, _)
removeChars(s, cs) ==
    IF s = "" THEN ""
    ELSE (IF Head(s) \in cs THEN "" ELSE Head(s)) \o removeChars(Tail(s), cs)

\* s.replace(/\D/g, "")
RECURSIVE keepDigits(_)
keepDigits(s) ==
    IF s = "" THEN ""
    ELSE (IF IsDigit(Head(s)) THEN Head(s) ELSE "") \o keepDigits(Tail(s))

\* s.replace(/[cs]+$/, "")
RECURSIVE dropTrailing(_, _)
dropTrailing(s, cs) ==
    IF s # "" /\ CharAt(s, Len(s) - 1) \in cs
    THEN dropTrailing(SubSeq(s, 1, Len(s) - 1), cs) ELSE s

\* s.replace(/[cs]$/, "")
dropLast(s, cs) ==
    IF s # "" /\ CharAt(s, Len(s) - 1) \in cs THEN SubSeq(s, 1, Len(s) - 1) ELSE s

\* \b at offset i of s
wordBoundary(s, i) == IsWordChar(At(s, i - 1)) # IsWordChar(At(s, i))

\* the offsets at which /\b(t1|t2|...)/i, with a closing \b if closed,
\* matches in s; the terms are given in lower case
termHits(s, terms, closed) ==
    LET lower == toLowerCase(s)
    IN  {i \in 0..Len(s) : \E t \in terms :
            /\ i + Len(t) <= Len(s)
            /\ SubSeq(lower, i + 1, i + Len(t)) = t
            /\ wordBoundary(s, i)
            /\ closed => wordBoundary(s, i + Len(t))}

\* /\b(t1|t2|...)\b/i.test(s)
testWords(s, terms) == termHits(s, terms, TRUE) # {}

\* the number of pieces of s.split(/\s+/)
wordCount(s) == Len(splitSpaces(s))

\* /^\d{10}-\d{2}-\d{6}$/.test(s)
IsAccession(s) ==
    /\ Len(s) = 20
    /\ \A i \in 0..19 :
          IF i \in {10, 13} THEN CharAt(s, i) = "-" ELSE IsDigit(CharAt(s, i))

\* mutant: the digits are returned ungrouped
formatAccessionUngrouped(acc) ==
    IF ~TruthyStr(acc) THEN Null
    ELSE IF IsAccession(Val(acc)) THEN acc
    ELSE IF Len(keepDigits(Val(acc))) = 18 THEN Str(keepDigits(Val(acc))) ELSE Null

\* formatAccession(acc)
formatAccession(acc) ==
    IF ~TruthyStr(acc) THEN Null
    ELSE IF IsAccession(Val(acc)) THEN acc
    ELSE LET digits == keepDigits(Val(acc))
         IN  IF Len(digits) = 18
             THEN Str(Slice(digits, 0, 10) \o "-" \o Slice(digits, 10, 12)
                          \o "-" \o Slice(digits, 12, 18))
             ELSE Null

Months == <<"january", "february", "march", "april", "may", "june", "july",
            "august", "september", "october", "november", "december">>

IsLeap(y) == (y % 4 = 0 /\ y % 100 # 0) \/ y % 400 = 0

DaysIn(mo, y) ==
    IF mo = 2 THEN (IF IsLeap(y) THEN 29 ELSE 28)
    ELSE IF mo \in {4, 6, 9, 11} THEN 30 ELSE 31

\* /^\d{4}-\d{2}-\d{2}$/.test(t)
IsIsoDate(t) ==
    /\ Len(t) = 10
    /\ \A i \in 0..9 :
          IF i \in {4, 7} THEN CharAt(t, i) = "-" ELSE IsDigit(CharAt(t, i))

\* Date.prototype.toISOString().slice(0, 10) of a calendar day
isoDate(y, mo, d) ==
    PadStart(NumToString(y), 4) \o "-" \o PadStart(NumToString(mo), 2)
        \o "-" \o PadStart(NumToString(d), 2)

\* patterns[0] of parseDateToISO matched at offset i of t:
\* /\b(January|...|December)\s+(\d{1,2}),?\s+(\d{4})\b/i; <<>> or
\* <<[month, day, year]>>
monthDateAt(t, i) ==
    LET lower == toLowerCase(t)
        ms == {k \in 1..12 : startsWith(Slice(lower, i, Len(t)), Months[k])}
    IN  IF ms = {} \/ ~wordBoundary(t, i) THEN <<>>
        ELSE LET k == CHOOSE k \in ms : TRUE
                 a == i + Len(Months[k])
                 b == spaceRunEnd(t, a)
                 c == digitRunEnd(t, b)
                 e == IF At(t, c) = "," THEN c + 1 ELSE c
                 f == spaceRunEnd(t, e)
                 g == digitRunEnd(t, f)
             IN  IF b > a /\ c - b \in {1, 2} /\ f > e /\ g - f = 4
                    /\ ~IsWordChar(At(t, g))
                 THEN <<[month |-> k, day |-> parseDigits(Slice(t, b, c)),
                         year |-> parseDigits(Slice(t, f, g))]>>
                 ELSE <<>>

\* parseDateToISO(text). The ISO form is returned as it is; a month name,
\* a day and a year go through new Date(...).toISOString(), which gives the
\* same calendar day on a host whose clock is at or west of UTC. The other
\* texts of the model hold no digit: patterns[1] and patterns[2] do not
\* match them and new Date(text) is invalid, so they give null.
parseDateToISO(text) ==
    IF ~TruthyStr(text) THEN Null
    ELSE LET t == trim(Val(text))
             hits == {i \in 0..Len(t) : monthDateAt(t, i) # <<>>}
         IN  IF IsIsoDate(t) THEN Str(t)
             ELSE IF hits = {} THEN Null
             ELSE LET m == monthDateAt(t, First(hits))[1]
                  IN  IF m.day >= 1 /\ m.day <= DaysIn(m.month, m.year)
                      THEN Str(isoDate(m.year, m.month, m.day))
                      ELSE Null

RECURSIVE Pow10(_)
Pow10(n) == IF n = 0 THEN 1 ELSE 10 * Pow10(n - 1)

\* the exponent of the scale word at the start of s
scaleExponent(s) ==
    LET lower == toLowerCase(s)
    IN  IF startsWith(lower, "thousand") THEN 3
        ELSE IF startsWith(lower, "million") THEN 6
        ELSE IF startsWith(lower, "billion") THEN 9
        ELSE 0

\* mutant: the scale word is not applied
parseMoneyUnscaled(text) ==
    IF ~TruthyStr(text) THEN Null
    ELSE LET cleaned == trim(removeChars(Val(text), {"(", ")", ","}))
             starts == {i \in 0..(Len(cleaned) - 1) : IsDigit(CharAt(cleaned, i))}
         IN  IF starts = {} THEN Null
             ELSE LET a == First(starts)
                      b == digitRunEnd(cleaned, a)
                      c == IF At(cleaned, b) = "." /\ digitRunEnd(cleaned, b + 1) > b + 1
                           THEN digitRunEnd(cleaned, b + 1) ELSE b
                      frac == IF c > b THEN Slice(cleaned, b + 1, c) ELSE ""
                      n == parseDigits(Slice(cleaned, a, b) \o frac)
                  IN  Num(IF frac = "" THEN n
                          ELSE (2 * n + Pow10(Len(frac))) \div (2 * Pow10(Len(frac))))

\* parseMoneyToUSD(text): the first number of the cleaned text, which is
\* where /(?:\$|USD\s*)?\s*([0-9]+(?:\.[0-9]+)?)(?:\s*(thousand|million|
\* billion))?/i matches, times its scale, rounded half up as Math.round. The
\* product is computed exactly; the amounts of the model have at most as
\* many decimals as their scale has zeros, or no scale word.
parseMoneyToUSD(text) ==
    IF ~TruthyStr(text) THEN Null
    ELSE LET cleaned == trim(removeChars(Val(text), {"(", ")", ","}))
             starts == {i \in 0..(Len(cleaned) - 1) : IsDigit(CharAt(cleaned, i))}
         IN  IF starts = {} THEN Null
             ELSE LET a == First(starts)
                      b == digitRunEnd(cleaned, a)
                      c == IF At(cleaned, b) = "." /\ digitRunEnd(cleaned, b + 1) > b + 1
                           THEN digitRunEnd(cleaned, b + 1) ELSE b
                      frac == IF c > b THEN Slice(cleaned, b + 1, c) ELSE ""
                      word == Slice(cleaned, spaceRunEnd(cleaned, c), Len(cleaned))
                      n == parseDigits(Slice(cleaned, a, b) \o frac)
                      shift == scaleExponent(word) - Len(frac)
                  IN  Num(IF shift >= 0 THEN n * Pow10(shift)
                          ELSE (2 * n + Pow10(-shift)) \div (2 * Pow10(-shift)))

\* manifest.primary_url?.match(/data\/(\d+)\//)?.[1] || null
cikOf(url) ==
    IF IsNull(url) THEN Null
    ELSE LET u == Val(url)
             hits == {i \in 0..Len(u) :
                         /\ Slice(u, i, i + 5) = "data/"
                         /\ digitRunEnd(u, i + 5) > i + 5
                         /\ At(u, digitRunEnd(u, i + 5)) = "/"}
         IN  IF hits = {} THEN Null
             ELSE Str(Slice(u, First(hits) + 5, digitRunEnd(u, First(hits) + 5)))

\* path.basename(p) of a path without a trailing separator
RECURSIVE basename(_)
basename(p) ==
    IF indexOf(p, "/") < 0 THEN p
    ELSE basename(Slice(p, indexOf(p, "/") + 1, Len(p)))

\* /ex\d|dex\d/i.test(filename)
isExhibit(filename) ==
    \E i \in 0..Len(filename) :
        toLowerCase(Slice(filename, i, i + 2)) = "ex" /\ IsDigit(At(filename, i + 2))

\* mutant: the merger terms are tested before the collaboration terms
detectEventKindMergerFirst(text) ==
    IF text = "" THEN Null
    ELSE IF testWords(text, {"merger", "acquisition", "acquired", "acquires",
                             "purchase agreement", "merger agreement"})
    THEN Str("Merger")
    ELSE IF termHits(text, {"collaboration agreement", "license agreement",
                            "strategic collaboration", "collaborat"}, FALSE) # {}
    THEN Str("Collaboration")
    ELSE IF testWords(text, {"partnership", "partner", "strategic alliance"})
    THEN Str("Partnership")
    ELSE IF testWords(text, {"financing", "loan", "equity financing",
                             "underwritten offering", "investment"})
    THEN Str("Financing")
    ELSE Null

\* detectEventKind(text)
detectEventKind(text) ==
    IF text = "" THEN Null
    ELSE IF termHits(text, {"collaboration agreement", "license agreement",
                            "strategic collaboration", "collaborat"}, FALSE) # {}
    THEN Str("Collaboration")
    ELSE IF testWords(text, {"merger", "acquisition", "acquired", "acquires",
                             "purchase agreement", "merger agreement"})
    THEN Str("Merger")
    ELSE IF testWords(text, {"partnership", "partner", "strategic alliance"})
    THEN Str("Partnership")
    ELSE IF testWords(text, {"financing", "loan", "equity financing",
                             "underwritten offering", "investment"})
    THEN Str("Financing")
    ELSE Null

-----------------------------------------------------------------------------
(* extract-manual.js: run. The keyword tests, the item marker, the context
   window and every conversion are computed from the text. What the longer
   regular expressions of run match is an input of the run, `found`: for each
   of them null or the text it captured, a piece of the text searched. *)

\* chunks.map(c => c.text).join("\n\n")
RECURSIVE joinChunks(_)
joinChunks(cs) ==
    IF cs = <<>> THEN ""
    ELSE IF Len(cs) = 1 THEN cs[1].text
    ELSE cs[1].text \o "\n\n" \o joinChunks(Tail(cs))

\* the end of the run of digits and dots of s that starts at offset i
RECURSIVE itemRunEnd(_, _)
itemRunEnd(s, i) ==
    IF IsDigit(At(s, i)) \/ At(s, i) = "." THEN itemRunEnd(s, i + 1) ELSE i

\* /===\s*Item\s+([\d.]+)/i matched at offset i of text: the offset its
\* group starts at, or -1
itemAt(text, i) ==
    LET a == spaceRunEnd(text, i + 3)
        b == spaceRunEnd(text, a + 4)
    IN  IF /\ Slice(text, i, i + 3) = "==="
           /\ toLowerCase(Slice(text, a, a + 4)) = "item"
           /\ b > a + 4
           /\ itemRunEnd(text, b) > b
        THEN b ELSE -1

\* fullText.match(/===\s*Item\s+([\d.]+)/i): <<>> or <<[index, item]>>
itemMatch(text) ==
    LET hits == {i \in 0..Len(text) : itemAt(text, i) >= 0}
    IN  IF hits = {} THEN <<>>
        ELSE LET i == First(hits)
             IN  <<[index |-> i,
                    item |-> Slice(text, itemAt(text, i), itemRunEnd(text, itemAt(text, i)))]>>

\* the characters of the context window before and after the item marker
WindowBefore == 1000
WindowAfter == 8000

\* lines 292-297
contextWindow(text) ==
    LET itemIndex == IF itemMatch(text) = <<>> THEN 0 ELSE itemMatch(text)[1].index
    IN  Slice(text, Max(0, itemIndex - WindowBefore),
              Min(Len(text), itemIndex + WindowAfter))

\* extractCompanyName(text, manifest); tried holds what strategies 1, 2 and
\* 4 captured and the header line strategy 5 accepted
extractCompanyName(text, m, tried) ==
    LET c1 == dropTrailing(trim(Val(tried[1])), {",", " ", "\n", "\t"})
        c2 == dropTrailing(trim(Val(tried[2])), {",", " ", "\n", "\t"})
        c4 == trim(Val(tried[3]))
    IN  IF text = "" THEN OrElse(m.company_name, Null)
        ELSE IF /\ ~IsNull(tried[1])
                /\ ~testWords(c1, {"state", "jurisdiction", "incorporation", "provisions",
                                   "warranties", "commission", "file", "number"})
                /\ wordCount(c1) <= 8
        THEN Str(c1)
        ELSE IF /\ ~IsNull(tried[2])
                /\ ~testWords(c2, {"state", "jurisdiction", "incorporation", "commission",
                                   "file", "trading", "symbol"})
                /\ wordCount(c2) <= 8
        THEN Str(c2)
        ELSE IF /\ TruthyStr(m.company_name)
                /\ Val(m.company_name) # "Not applicable"
                /\ Len(Val(m.company_name)) > 3
                /\ ~testWords(Val(m.company_name), {"jurisdiction", "incorporation", "state"})
        THEN m.company_name
        ELSE IF /\ ~IsNull(tried[3])
                /\ ~testWords(c4, {"state", "jurisdiction", "incorporation", "commission"})
                /\ wordCount(c4) <= 8
        THEN Str(c4)
        ELSE tried[4]

\* lines 271-289: doc
docOf(m, text, found) ==
    [accession |-> OrElse(m.accession_guess, formatAccession(m.accession_raw)),
     filingType |-> OrElse(m.filing_type, Str("8-K")),
     filedDate |-> IF ~IsNull(found.reportDate) THEN parseDateToISO(found.reportDate)
                   ELSE IF TruthyStr(m.filed_date) THEN parseDateToISO(m.filed_date)
                   ELSE Null,
     companyName |-> extractCompanyName(text, m, found.company),
     cik |-> cikOf(m.primary_url)]

\* lines 366-374: the matches whose value is not 0, as {raw, usd}
amountsOf(raws) ==
    LET all == [i \in 1..Len(raws) |->
                   [raw |-> raws[i], usd |-> parseMoneyToUSD(Str(raws[i]))]]
    IN  SelectSeq(all, LAMBDA a : TruthyNum(a.usd))

\* amounts.sort((a,b)=>b.usd-a.usd)[0]: the first of the largest amounts
largest(amounts) ==
    amounts[First({i \in 1..Len(amounts) :
                      \A j \in 1..Len(amounts) : Val(amounts[j].usd) <= Val(amounts[i].usd)})]

\* lines 350-361: the first candidate that parses
RECURSIVE firstDate(_)
firstDate(cands) ==
    IF cands = <<>> THEN Null
    ELSE IF ~IsNull(parseDateToISO(Str(Head(cands)))) THEN parseDateToISO(Str(Head(cands)))
    ELSE firstDate(Tail(cands))

Trimmed(v) == IF IsNull(v) THEN Null ELSE Str(trim(Val(v)))

\* lines 299-378: event
eventOf(text, found) ==
    [kind |-> detectEventKind(contextWindow(text)),
     secItem |-> IF itemMatch(text) = <<>> THEN Null
                 ELSE Str("Item " \o itemMatch(text)[1].item),
     headline |-> Trimmed(found.headline),
     summary |-> Trimmed(found.summary),
     totalValueUSD |-> IF amountsOf(found.money) = <<>> THEN Null
                       ELSE largest(amountsOf(found.money)).usd,
     effectiveDate |-> firstDate(found.dates)]

\* line 380
isPartnership(window) ==
    testWords(window, {"collaboration", "collaborat", "license agreement",
                       "strategic collaboration", "partnership", "partner"})

\* line 381
isDeal(window) ==
    testWords(window, {"merger", "acquisition", "acquired", "acquires",
                       "purchase agreement", "purchase of"})

\* lines 411-435: partner B from the Roche patterns, tried from pattern i;
\* <<>> or <<[name, text]>>
RECURSIVE rochePartner(_, _)
rochePartner(found, i) ==
    IF i > Len(found.roche) THEN <<>>
    ELSE IF found.roche[i] = <<>> THEN rochePartner(found, i + 1)
    ELSE LET rocheMatch == found.roche[i][1]
         IN  IF TruthyStr(rocheMatch.group) /\ includes(Val(rocheMatch.group), "Hoffmann")
             THEN <<[name |-> trim(Val(rocheMatch.group)),
                     text |-> trim(Val(rocheMatch.group))]>>
             ELSE IF includes(rocheMatch.whole, "F. Roche Ltd")
             THEN IF ~IsNull(found.fullRoche)
                  THEN <<[name |-> trim(Val(found.fullRoche)),
                          text |-> trim(Val(found.fullRoche))]>>
                  ELSE <<[name |-> "F. Hoffmann-La Roche Ltd.", text |-> "F. Roche Ltd"]>>
             ELSE rochePartner(found, i + 1)

\* lines 438-451: partner B from the "with <Entity>" pattern
withPartner(found) ==
    LET partner == dropLast(trim(Val(found.with)), {",", "."})
    IN  IF /\ ~IsNull(found.with)
           /\ wordCount(partner) <= 10
           /\ ~testWords(partner, {"agreement", "provisions", "warranties", "obligations",
                                   "representations", "confidentiality", "contains",
                                   "among"})
        THEN <<[name |-> partner, text |-> partner]>>
        ELSE <<>>

\* lines 475-490: the first known name that partner A does not contain
RECURSIVE pharmaPartner(_, _)
pharmaPartner(pharmaMatches, partnerA) ==
    IF pharmaMatches = <<>> THEN <<>>
    ELSE LET pharma == dropLast(trim(Head(pharmaMatches)), {","})
         IN  IF \/ ~TruthyStr(partnerA)
                \/ ~includes(toLowerCase(Val(partnerA)), toLowerCase(pharma))
             THEN <<[name |-> pharma, text |-> pharma]>>
             ELSE pharmaPartner(Tail(pharmaMatches), partnerA)

\* lines 397-490: the two parties and the texts their evidence is searched
\* with; a party that is not resolved is null
partners(companyName, found) ==
    LET fromName == IF TruthyStr(companyName) THEN companyName ELSE Null
        roche == rochePartner(found, 1)
        with == IF roche # <<>> THEN roche ELSE withPartner(found)
        tryBetween == with = <<>> /\ found.between # <<>>
        p1 == dropLast(trim(found.between[1].first), {",", "."})
        p2 == dropLast(trim(found.between[1].second), {",", "."})
        partnerA == IF tryBetween /\ ~TruthyStr(fromName) /\ wordCount(p1) <= 10
                    THEN Str(p1) ELSE fromName
        between == IF tryBetween /\ wordCount(p2) <= 10
                   THEN <<[name |-> p2, text |-> p2]>> ELSE with
        partnerB == IF between # <<>> /\ between[1].name # "" THEN between
                    ELSE pharmaPartner(found.pharma, partnerA)
    IN  [partnerA |-> partnerA,
         partnerAText |-> partnerA,
         partnerB |-> IF partnerB = <<>> THEN Null ELSE Str(partnerB[1].name),
         partnerBText |-> IF partnerB = <<>> THEN Null ELSE Str(partnerB[1].text)]

\* extended.search(/[.!?]\s/)
sentenceEnd(s) ==
    LET hits == {i \in 0..(Len(s) - 1) :
                    CharAt(s, i) \in {".", "!", "?"} /\ IsSpace(At(s, i + 1))}
    IN  IF hits = {} THEN -1 ELSE First(hits)

\* the longest sentence the scope is extended to
ScopeMax == 250

\* lines 498-514: the scope text, extended to the end of its sentence
scopeOf(window, found) ==
    IF IsNull(found.scope) THEN Null
    ELSE LET scopeText == trim(Val(found.scope))
             extended == Slice(window, indexOf(window, scopeText), Len(window))
         IN  IF /\ At(scopeText, Len(scopeText) - 1) \notin {".", "!", "?"}
                /\ sentenceEnd(extended) > 0
                /\ sentenceEnd(extended) < ScopeMax
             THEN Str(trim(Slice(extended, 0, sentenceEnd(extended) + 1)))
             ELSE Str(scopeText)

\* the alternatives of the territory pattern, in its order
Territories == <<"worldwide", "globally", "global", "united states", "u.s.",
                 "outside the u.s.">>

\* contextWindow.match(/\b(worldwide|globally|global|United States|U\.S\.|
\* outside the U\.S\.)\b/i): the leftmost match, at one offset the first
\* alternative that matches
territoryOf(window) ==
    LET at(i) == {k \in 1..Len(Territories) : i \in termHits(window, {Territories[k]}, TRUE)}
        hits == termHits(window, {Territories[k] : k \in 1..Len(Territories)}, TRUE)
    IN  IF hits = {} THEN Null
        ELSE Str(Slice(window, First(hits),
                       First(hits) + Len(Territories[First(at(First(hits)))])))

\* lines 535-545: the first milestone figure above the upfront payment
RECURSIVE milestoneOf(_, _)
milestoneOf(tried, upfront) ==
    IF tried = <<>> THEN Null
    ELSE LET amt == parseMoneyToUSD(Head(tried))
         IN  IF /\ ~IsNull(Head(tried)) /\ TruthyNum(amt)
                /\ Val(amt) > (IF TruthyNum(upfront) THEN Val(upfront) ELSE 0)
             THEN Head(tried)
             ELSE milestoneOf(Tail(tried), upfront)

\* lines 395-545: the partnership object before the completeness test
partnershipOf(companyName, window, found) ==
    LET p == partners(companyName, found)
        upfront == IF IsNull(found.upfront) THEN Null ELSE parseMoneyToUSD(found.upfront)
    IN  [partnerA |-> p.partnerA,
         partnerB |-> p.partnerB,
         scope |-> scopeOf(window, found),
         territory |-> territoryOf(window),
         upfrontPaymentUSD |-> upfront,
         milestonesUSD |-> parseMoneyToUSD(milestoneOf(found.milestone, upfront))]

\* mutant: an incomplete partnership is kept
keepIncomplete(partnership) == <<partnership>>

\* lines 547-550: a partnership without both parties is discarded
discardIncomplete(partnership) ==
    IF ~TruthyStr(partnership.partnerA) \/ ~TruthyStr(partnership.partnerB)
    THEN <<>> ELSE <<partnership>>

\* lines 552-560: the deal object
dealOf(found) ==
    [target |-> IF IsNull(found.target) THEN Null
                ELSE Str(dropLast(trim(Val(found.target)), {",", "."})),
     buyer |-> Trimmed(found.buyer),
     seller |-> Trimmed(found.seller)]

\* lines 563-572: provDocs (sourceUrl is left out, as in the evidence)
provDocsOf(m) ==
    [i \in 1..Len(m.files) |->
        LET filename == basename(Val(OrElse(m.files[i].filename, Str(""))))
        IN  [role |-> IF isExhibit(filename) THEN "exhibit" ELSE "primary",
             filename |-> filename,
             sha256 |-> Val(OrElse(m.files[i].sha256, Str("")))]]

\* an evidence record of the output
FieldEvidence(field, e) ==
    [field |-> field, threw |-> e.threw, sourceFile |-> e.sourceFile,
     selector |-> e.selector, snippet |-> e.snippet]

\* mutant: a value that no chunk holds gets no evidence
addEvidenceWhenFound(evidence, field, searchValue, cs) ==
    IF IsNull(searchValue) \/ Val(searchValue) = "" THEN evidence
    ELSE IF evidenceTier(searchValue, cs) = "fallback" THEN evidence
    ELSE Append(evidence, FieldEvidence(field, findEvidence(searchValue, cs)))

\* lines 576-581: addEvidence(field, searchValue)
addEvidence(evidence, field, searchValue, cs) ==
    IF IsNull(searchValue) \/ Val(searchValue) = "" THEN evidence
    ELSE Append(evidence, FieldEvidence(field, findEvidence(searchValue, cs)))

RECURSIVE addFrom(_, _, _, _)
\* the calls of addEvidence from the i-th on, in order
addFrom(evidence, calls, i, cs) ==
    IF i > Len(calls) THEN evidence
    ELSE addFrom(addEvidence(evidence, calls[i][1], calls[i][2], cs), calls, i + 1, cs)

\* the one element of a set of one element
Only(S) == CHOOSE x \in S : TRUE

When(cond, v) == IF cond THEN v ELSE Null

\* lines 583-611: the calls of addEvidence, as <<field, searchValue>>; a call
\* under a false `if` is one with a null value
evidenceCalls(m, doc, event, found, partnership, p, milestoneText, deal) ==
    LET amounts == amountsOf(found.money)
        maxRaw == IF amounts = <<>> THEN Null ELSE Str(largest(amounts).raw)
        has == partnership # <<>>
    IN  << <<"doc.accession", OrElse(doc.accession, m.accession)>>,
           <<"doc.filingType", doc.filingType>>,
           <<"doc.filedDate", OrElse(m.filed_date, doc.filedDate)>>,
           <<"doc.companyName", doc.companyName>>,
           <<"doc.cik", doc.cik>>,
           <<"event.kind", OrElse(event.kind, Str(""))>>,
           <<"event.secItem", event.secItem>>,
           <<"event.headline", event.headline>>,
           <<"event.summary", event.summary>>,
           <<"event.totalValueUSD",
             When(TruthyNum(event.totalValueUSD),
                  OrElse(maxRaw, Str(NumToString(Val(event.totalValueUSD)))))>>,
           <<"event.effectiveDate", OrElse(event.effectiveDate, Str(""))>>,
           <<"partnership.partnerA", When(has, p.partnerAText)>>,
           <<"partnership.partnerB", When(has, p.partnerBText)>>,
           <<"partnership.scope", When(has, partnership[1].scope)>>,
           <<"partnership.territory", When(has, partnership[1].territory)>>,
           <<"partnership.upfrontPaymentUSD", When(has, found.upfront)>>,
           <<"partnership.milestonesUSD", When(has, milestoneText)>>,
           <<"deal.target", When(deal # <<>>, deal[1].target)>>,
           <<"deal.buyer", When(deal # <<>>, deal[1].buyer)>>,
           <<"deal.seller", When(deal # <<>>, deal[1].seller)>> >>

\* lines 613-623: the evidence of the provenance documents
provenanceEvidence(provDocs, cs) ==
    [i \in 1..Len(provDocs) |->
        LET named == {k \in 1..Len(cs) : cs[k].file = provDocs[i].filename}
            snippetSource == IF named # {} THEN <<cs[First(named)]>>
                             ELSE IF cs # <<>> THEN <<cs[1]>> ELSE <<>>
        IN  [field |-> "provenance.documents",
             threw |-> FALSE,
             sourceFile |-> IF snippetSource # <<>> THEN snippetSource[1].file
                            ELSE IF provDocs[i].filename # "" THEN provDocs[i].filename
                            ELSE "unknown",
             selector |-> "chunk:" \o (IF snippetSource # <<>> THEN snippetSource[1].file
                                       ELSE "unknown"),
             snippet |-> IF snippetSource # <<>>
                         THEN Slice(snippetSource[1].text, 0, SnippetMax) ELSE ""]]

\* the length of a SHA-256 digest in hexadecimal
ShaLength == 64

\* the most words a partner name may have
PartnerWords == 10

\* lines 645-654: the name reads like a fragment of a sentence
isFragment(name) ==
    \/ testWords(name, {"provisions", "warranties", "obligations", "agreement", "contains"})
    \/ wordCount(name) > PartnerWords

RECURSIVE Flatten(_)
Flatten(ss) == IF ss = <<>> THEN <<>> ELSE Head(ss) \o Flatten(Tail(ss))

\* lines 629-655: hardConstraints
hardConstraintsOf(doc, event, provDocs, partnership) ==
    (IF ~TruthyStr(doc.accession) \/ ~IsAccession(Val(doc.accession))
     THEN <<"Invalid accession format">> ELSE <<>>)
    \o (IF ~TruthyStr(doc.filedDate) THEN <<"Missing filed date">> ELSE <<>>)
    \o (IF ~TruthyStr(event.secItem) THEN <<"Missing SEC Item number">> ELSE <<>>)
    \o (IF ~TruthyStr(doc.companyName) \/ Val(doc.companyName) = "Not applicable"
        THEN <<"Missing or invalid company name">> ELSE <<>>)
    \o Flatten([i \in 1..Len(provDocs) |->
                   IF Len(provDocs[i].sha256) # ShaLength
                   THEN <<"provenance.sha256 invalid for " \o provDocs[i].filename>>
                   ELSE <<>>])
    \o (IF partnership # <<>> /\ TruthyStr(partnership[1].partnerA)
           /\ isFragment(Val(partnership[1].partnerA))
        THEN <<"Invalid partnerA - appears to be sentence fragment">> ELSE <<>>)
    \o (IF partnership # <<>> /\ TruthyStr(partnership[1].partnerB)
           /\ isFragment(Val(partnership[1].partnerB))
        THEN <<"Invalid partnerB - appears to be sentence fragment">> ELSE <<>>)

\* new Date(iso) of an ISO calendar day, as a number that orders the days
dateValue(iso) ==
    parseDigits(Slice(iso, 0, 4)) * 10000 + parseDigits(Slice(iso, 5, 7)) * 100
        + parseDigits(Slice(iso, 8, 10))

\* mutant: equal dates are reported too
crossFieldOfInclusive(doc, event, text) ==
    IF /\ TruthyStr(event.effectiveDate) /\ TruthyStr(doc.filedDate)
       /\ dateValue(Val(event.effectiveDate)) >= dateValue(Val(doc.filedDate))
    THEN <<"event.effectiveDate is after doc.filedDate (should be earlier or same)">>
    ELSE <<>>

\* lines 658-674: crossField
crossFieldOf(doc, event, text) ==
    (IF ~IsNull(event.totalValueUSD) /\ Val(event.totalValueUSD) <= 0
     THEN <<"event.totalValueUSD is non-positive">> ELSE <<>>)
    \o (IF /\ event.kind = Str("Collaboration")
           /\ reMatch(text, "Item 1.01") = <<>>
           /\ ~includes(toLowerCase(contextWindow(text)), "agreement")
        THEN <<"Collaboration found but no Item 1.01/agreement mention detected">>
        ELSE <<>>)
    \o (IF /\ TruthyStr(event.effectiveDate) /\ TruthyStr(doc.filedDate)
           /\ dateValue(Val(event.effectiveDate)) > dateValue(Val(doc.filedDate))
        THEN <<"event.effectiveDate is after doc.filedDate (should be earlier or same)">>
        ELSE <<>>)

\* mutant: the deal branch is taken whenever the deal words are present
isDealAlone(window) == isDeal(window)

\* lines 394 and 551: `if (isPartnership) ... else if (isDeal)`
dealBranch(window) == ~isPartnership(window) /\ isDeal(window)

\* lines 263-561 of run(): what it extracts from the text of the chunks
\* (window, doc and the partnership before the completeness test are each
\* computed once, as the element of a singleton)
fieldsOf(m, text, found) ==
    Only({Only({Only({
        [doc |-> doc,
         event |-> eventOf(text, found),
         partnership |-> IF isPartnership(window) THEN discardIncomplete(whole) ELSE <<>>,
         deal |-> IF dealBranch(window) THEN <<dealOf(found)>> ELSE <<>>,
         partners |-> partners(doc.companyName, found),
         milestoneText |-> milestoneOf(found.milestone, whole.upfrontPaymentUSD)] :
            whole \in {partnershipOf(doc.companyName, window, found)}}) :
            doc \in {docOf(m, text, found)}}) :
            window \in {contextWindow(text)}})

\* lines 563-685 of run(): the record written for what was extracted
outputOf(m, cs, text, found, f) ==
    LET provDocs == provDocsOf(m)
    IN  [doc |-> f.doc,
         event |-> f.event,
         provenance |-> [documents |-> provDocs],
         evidence |->
             Only({addFrom(<<>>, calls, 1, cs) :
                      calls \in {evidenceCalls(m, f.doc, f.event, found, f.partnership,
                                               f.partners, f.milestoneText, f.deal)}})
                 \o provenanceEvidence(provDocs, cs),
         validation |-> [hardConstraints |->
                             hardConstraintsOf(f.doc, f.event, provDocs, f.partnership),
                         crossField |-> crossFieldOf(f.doc, f.event, text)],
         partnership |-> f.partnership,
         deal |-> f.deal]

\* run(), from the chunks it loaded to the record it writes (each value is
\* computed once, as the element of a singleton)
run(m, cs, found) ==
    Only({Only({outputOf(m, cs, text, found, f) : f \in {fieldsOf(m, text, found)}}) :
             text \in {joinChunks(cs)}})

-----------------------------------------------------------------------------
(* The documents and parameters explored. *)

\* the text of scenario 1: 7,000 characters
ScenarioText == Repeat(Repeat("0123456789", 70), 10)

ShortTexts == {SubSeq(Letters, 1, n) : n \in 0..MaxTextLen}

DocTexts == ShortTexts \cup {ScenarioText}

\* the defaults of --target and --overlap
DefaultParams == <<3000, 200>>

\* the 7,000-character text is chunked with the default parameters only
ChunkParams(text) ==
    IF text \in ShortTexts
    THEN ((1..MaxTarget) \X (0..MaxOverlap)) \cup {DefaultParams}
    ELSE {DefaultParams}

Sha == Repeat("0123456789abcdef", 4)

\* the manifest ingest.js writes for a filing URL of the usual form
ManifestIngest ==
    [accession_guess |-> Str("0001193125-23-194715"),
     accession_raw |-> Str("000119312523194715"),
     accession |-> Null,
     filing_type |-> Str("8-K"),
     filed_date |-> Str("July 26, 2023"),
     company_name |-> Null,
     primary_url |-> Str("https://www.sec.gov/Archives/edgar/data/1234567/" \o
                         "000119312523194715/d1.htm"),
     files |-> <<[filename |-> Str("primary.html"), sha256 |-> Str(Sha)],
                 [filename |-> Str("ex99-1.htm"), sha256 |-> Null]>>]

\* the manifest ingest.js writes for a URL without a filing path, for a page
\* that gives no date
ManifestSparse ==
    [accession_guess |-> Str("accession-1"),
     accession_raw |-> Str("accession-1"),
     accession |-> Null,
     filing_type |-> Str("8-K"),
     filed_date |-> Null,
     company_name |-> Null,
     primary_url |-> Str("https://example.com/filing.htm"),
     files |-> <<[filename |-> Str("primary.html"), sha256 |-> Str(Sha)]>>]

\* a manifest written by hand, with the fields run() reads besides
ManifestByHand ==
    [accession_guess |-> Null,
     accession_raw |-> Str("0001193125-23-19471"),
     accession |-> Str("0001193125-23-194715"),
     filing_type |-> Null,
     filed_date |-> Str("unknown"),
     company_name |-> Str("Acme Corp"),
     primary_url |-> Null,
     files |-> <<>>]

\* the manifest ingest.js writes for a page that gives the date in ISO form
ManifestIsoDate == [ManifestIngest EXCEPT !.filed_date = Str("2023-08-01")]

\* a manifest written by hand whose file entry carries 64 characters that are
\* not a digest
ManifestBadHash ==
    [ManifestByHand EXCEPT
        !.files = <<[filename |-> Str("primary.html"), sha256 |-> Str(Repeat("g", 64))]>>]

Manifests ==
    {ManifestIngest, ManifestSparse, ManifestByHand, ManifestIsoDate, ManifestBadHash}

-----------------------------------------------------------------------------
(* chunk.js: one run of main for the document. *)

ChunkMain(target, ovl) ==
    /\ chunkStatus \in {"idle", "done", "error"}
    /\ targetSize' = target
    /\ overlap' = ovl
    /\ IF ~manifestOk
       THEN \* loadManifest throws; the catch reports it and exits 1
            /\ chunkStatus' = "error"
            /\ lastWritten' = {}
            /\ UNCHANGED <<chunkFiles, indexJson>>
       ELSE LET r == chunkText(fullText, target, ovl)
            IN  IF ~r.returns
                THEN \* chunkText never returns: saveChunks is not reached
                     /\ chunkStatus' = "hung"
                     /\ lastWritten' = {}
                     /\ UNCHANGED <<chunkFiles, indexJson>>
                ELSE LET saved == saveChunks(chunkFiles, r.chunks)
                     IN  /\ chunkFiles' = saved.files
                         /\ indexJson' = <<saved.index>>
                         /\ lastWritten' = saved.written
                         /\ chunkStatus' = "done"
    /\ repeated' = (/\ chunkStatus = "done" /\ chunkStatus' = "done"
                    /\ targetSize = target /\ overlap = ovl)
    /\ UNCHANGED <<fullText, manifestOk>>
    /\ UNCHANGED <<evidenceVars, extractVars, helperVars, restVars>>

ChunkRun == \E p \in ChunkParams(fullText) : ChunkMain(p[1], p[2])

EmptyDir == [n \in {} |-> ""]

Init ==
    /\ fullText \in DocTexts
    /\ manifestOk \in BOOLEAN
    /\ targetSize = 0
    /\ overlap = 0
    /\ chunkFiles = EmptyDir
    /\ indexJson = <<>>
    /\ chunkStatus = "idle"
    /\ lastWritten = {}
    /\ repeated = FALSE
    /\ chunks = <<>>
    /\ searchText = Null
    /\ ev = <<>>
    /\ manifest = ManifestIngest
    /\ captured = <<>>
    /\ extracted = <<>>
    /\ extractStatus = "idle"
    /\ call = <<>>
    /\ returned = <<>>
    /\ IdleRest

NextChunk == ChunkRun

SpecChunk == Init /\ [][NextChunk]_vars

-----------------------------------------------------------------------------
(* The evidence locator called on the chunks of a chunked document. *)

\* the candidates of the exhaustive family have at most MaxCandLen characters
MaxCandLen == 2

\* a short filing, chunked small so that phrases straddle chunk boundaries
DocShort ==
    "=== Item 1.01 ===\nAcme Corp entered into a License Agreement" \o
    "\nwith Beta  Ltd. Group Beta has unknown obligations a b c d " \o
    "e f g. Then Beta Holdings Group signed."

\* a filing whose chunks are longer than the snippet window
DocLong ==
    "FORM 8-K\nDate of report: July 26, 2023\nAcme Corp\n(Exact name" \o
    " of registrant)\n\n=== Item 1.01 ===\nOn July 20, 2023 Acme Cor" \o
    "p entered into a Collaboration and License Agreement\nwith Be" \o
    "ta  Ltd. for the development of products worldwide.\tAcme wil" \o
    "l receive an upfront payment of $500,000 and milestone payme" \o
    "nts of $1.2 billion.  The Agreement contains customary provi" \o
    "sions, warranties and other obligations of the parties.\n\n===" \o
    " Item 9.01 ===\nExhibits. Gamma Holdings Group signed the pre" \o
    "ss release."

\* the chunk runs whose output the locator searches: <<text, target, overlap>>
EvidenceRuns ==
    ({DocShort} \X {<<40, 8>>, <<45, 15>>, <<60, 10>>, DefaultParams})
    \cup ({DocLong} \X {<<300, 50>>, DefaultParams})

RECURSIVE StringsUpTo(_, _)
\* the strings over the characters cs of at most n characters
StringsUpTo(cs, n) ==
    IF n = 0 THEN {""}
    ELSE LET shorter == StringsUpTo(cs, n - 1)
         IN  shorter \cup {s \o c : s \in shorter, c \in cs}

\* the candidates findEvidence is called with: null, every short string over
\* three characters, and phrases that do and do not occur in the documents
Candidates ==
    {Null} \cup {Str(s) : s \in StringsUpTo({"a", "B", " "}, MaxCandLen)} \cup
    {Str(""),
     Str("  "),
     Str("acme corp"),
     Str("License Agreement with Beta Ltd"),
     Str("Beta Holdings Group"),
     Str("Gamma Holdings Group"),
     Str("obligations a b c d e f g. Then"),
     Str("zzzz qqqq"),
     Str("a b"),
     Str("Acme Corporation License"),
     Str("ENTERED INTO"),
     Str("Then Beta"),
     Str("Group"),
     Str("Beta Holdings Ltd"),
     Str("HOLDINGS Beta"),
     Str("unknown"),
     Str("Zeta unknown q r s t u v w x"),
     Str("$1.2 billion"),
     Str("upfront payment of $500,000"),
     Str("Agreement contains customary provisions, warranties and other obligations of the"),
     Str(" July 26, 2023 "),
     Str("Item 9.01"),
     Str("Collaboration"),
     Str("signed the PRESS statement"),
     Str("Exhibits. (Gamma)"),
     Str("On July 20, 2023 Acme Corp entered into a Collaboration and License Agreement")}

\* the state after `chunk.js <docId> --target t --overlap o` on the text
InitChunked(text, t, o) ==
    LET saved == saveChunks(EmptyDir, chunkText(text, t, o).chunks)
    IN  /\ fullText = text
        /\ manifestOk = TRUE
        /\ targetSize = t
        /\ overlap = o
        /\ chunkFiles = saved.files
        /\ indexJson = <<saved.index>>
        /\ chunkStatus = "done"
        /\ lastWritten = saved.written
        /\ repeated = FALSE

\* the document was chunked, or it was not and has no chunk directory
InitEvidence ==
    /\ \/ \E r \in EvidenceRuns : InitChunked(r[1], r[2][1], r[2][2])
       \/ /\ fullText \in {DocShort, DocLong}
          /\ manifestOk = TRUE
          /\ targetSize = 0
          /\ overlap = 0
          /\ chunkFiles = EmptyDir
          /\ indexJson = <<>>
          /\ chunkStatus = "idle"
          /\ lastWritten = {}
          /\ repeated = FALSE
    /\ chunks = <<>>
    /\ searchText = Null
    /\ ev = <<>>
    /\ manifest = ManifestIngest
    /\ captured = <<>>
    /\ extracted = <<>>
    /\ extractStatus = "idle"
    /\ call = <<>>
    /\ returned = <<>>
    /\ IdleRest

\* extract-manual.js loads the chunks and calls findEvidence(cand, chunks, manifest)
LocateEvidence(cand) ==
    /\ ev = <<>>
    /\ chunks' = loadChunks(chunkDirExists, chunkFiles)
    /\ searchText' = cand
    /\ ev' = <<findEvidence(cand, chunks')>>
    /\ UNCHANGED <<chunkVars, extractVars, helperVars, restVars>>

NextEvidence == \E cand \in Candidates : LocateEvidence(cand)

SpecEvidence == InitEvidence /\ [][NextEvidence]_vars

-----------------------------------------------------------------------------
(* The rule extractor run on the chunks of a chunked document. *)

\* a filing with Roche as the counterparty
DocRoche ==
    "FORM 8-K\nAcme Corp\n=== Item 1.01 ===\nAcme Corp announced a " \o
    "license agreement with F. Roche Ltd and Pfizer, an agreement" \o
    " between Acme Corp. and Roche AG for development of products" \o
    " targeting cancer globally. Roche pays up to $1,000 and an u" \o
    "pfront payment of $2 million."

\* a filing about an acquisition
DocDeal ==
    "FORM 8-K\n=== Item 2.01 ===\nOn August 1, 2023 Acme Corp compl" \o
    "eted the acquisition of Gamma LLC, for $2,500,000 in cash.\nB" \o
    "uyer: Acme Corp\nSeller: Gamma Holdings\n"

\* a filing about a license and an acquisition
DocBoth ==
    "=== Item 1.01 ===\nAcme Corp entered into a License Agreement" \o
    "\nwith Beta  Ltd. and completed the acquisition of Gamma LLC, today."

\* a filing whose only figure is a par value
DocPar == "=== Item 3.02 ===\nAcme Corp issued common stock, par value $0.001 per share."

\* a filing that is neither
DocPlain == "=== Item 8.01 ===\nAcme Corp announced a loan of 1,000,000 dollars."

\* the chunk runs whose output the extractor reads
ExtractRuns ==
    ({DocLong} \X {<<300, 50>>, DefaultParams})
    \cup ({DocRoche, DocDeal, DocPlain, DocBoth, DocPar} \X {DefaultParams})

\* what the company and report-date patterns may capture
DocFound ==
    {[company |-> <<Null, Null, Null, Null>>, reportDate |-> Null],
     [company |-> <<Null, Str("July 26, 2023\nAcme Corp"), Null, Null>>,
      reportDate |-> Str("July 26, 2023")],
     [company |-> <<Null, Null, Null, Str("Acme Corp")>>, reportDate |-> Null]}

\* what the headline, summary, date and money patterns may capture
EventFound ==
    {[headline |-> Null, summary |-> Null, dates |-> <<>>, money |-> <<>>],
     [headline |-> Str("On July 20, 2023 Acme Corp entered into a Collaboration" \o
                       " and License Agreement"),
      summary |-> Str("On July 20, 2023 Acme Corp entered into a Collaboration" \o
                      " and License Agreement\nwith Beta  Ltd."),
      dates |-> <<"July 20, 2023">>,
      money |-> <<"$500,000 ", "$1.2 billion", "$500,000">>],
     [headline |-> Null,
      summary |-> Str("announced a license agreement with F. Roche Ltd and Pfizer," \o
                      " an agreement between Acme Corp."),
      dates |-> <<>>,
      money |-> <<"$1,000 ", "$2 million", "$1,000">>],
     [headline |-> Str("On August 1, 2023 Acme Corp completed the acquisition of " \o
                       "Gamma LLC, for $2,500,000 in cash."),
      summary |-> Null,
      dates |-> <<"August 1, 2023">>,
      money |-> <<"$2,500,000 ", "$2,500,000">>],
     [headline |-> Null,
      summary |-> Str("announced a loan of 1,000,000 dollars."),
      dates |-> <<>>,
      money |-> <<"1,000,000">>],
     [headline |-> Null, summary |-> Null, dates |-> <<>>, money |-> <<"$0.001 ">>]}

NoPartner ==
    [roche |-> <<<<>>, <<>>, <<>>>>, fullRoche |-> Null, with |-> Null,
     between |-> <<>>, pharma |-> <<>>]

\* what the partner patterns of the partnership branch may capture
PartnerFound ==
    {NoPartner,
     [NoPartner EXCEPT !.with = Str("Beta  Ltd.")],
     [NoPartner EXCEPT !.roche = <<<<>>, <<>>,
                                   <<[whole |-> "with F. Roche Ltd", group |-> Null]>>>>],
     [NoPartner EXCEPT !.between = <<[first |-> "Acme Corp.", second |-> "Roche AG"]>>],
     [NoPartner EXCEPT !.pharma = <<"Roche", "Pfizer", "Roche">>]}

NoTerms == [scope |-> Null, upfront |-> Null, milestone |-> <<Null, Null>>]

\* what the scope, upfront and milestone patterns may capture
TermFound ==
    {NoTerms,
     [scope |-> Str("development of products worldwide"),
      upfront |-> Str("$500,000"),
      milestone |-> <<Null, Str("$1.2 billion")>>],
     [scope |-> Str("development of products targeting cancer globally"),
      upfront |-> Str("$2 million"),
      milestone |-> <<Str("$1,000"), Null>>]}

NoDeal == [target |-> Null, buyer |-> Null, seller |-> Null]

\* what the patterns of the deal branch may capture
DealFound ==
    {NoDeal,
     [target |-> Str("Gamma LLC"), buyer |-> Null, seller |-> Null],
     [target |-> Str("Gamma LLC"), buyer |-> Str("Acme Corp"),
      seller |-> Str("Gamma Holdings")]}

\* the strings of a sequence of nullable strings
Given(vs) == {Val(vs[i]) : i \in {k \in 1..Len(vs) : ~IsNull(vs[k])}}

\* every piece is a piece of the text
AllIn(text, pieces) == \A s \in pieces : includes(text, s)

\* What the patterns of run may capture from the text: the patterns of a
\* branch that is not taken capture nothing.
FoundIn(text) ==
    LET window == contextWindow(text)
        docs == {d \in DocFound :
                    AllIn(text, Given(d.company) \cup Given(<<d.reportDate>>))}
        events == {e \in EventFound :
                      AllIn(text, Given(<<e.headline, e.summary>>)
                                  \cup {e.dates[i] : i \in 1..Len(e.dates)}
                                  \cup {e.money[i] : i \in 1..Len(e.money)})}
        ps == IF ~isPartnership(window) THEN {NoPartner}
              ELSE {p \in PartnerFound :
                      AllIn(window,
                            Given(<<p.with>>)
                            \cup {p.pharma[i] : i \in 1..Len(p.pharma)}
                            \cup {p.roche[i][1].whole :
                                     i \in {k \in 1..3 : p.roche[k] # <<>>}}
                            \cup (IF p.between = <<>> THEN {}
                                  ELSE {p.between[1].first, p.between[1].second}))}
        ts == IF ~isPartnership(window) THEN {NoTerms}
              ELSE {t \in TermFound :
                      AllIn(window, Given(<<t.scope, t.upfront>>) \cup Given(t.milestone))}
        ds == IF isPartnership(window) \/ ~isDeal(window) THEN {NoDeal}
              ELSE {d \in DealFound : AllIn(window, Given(<<d.target, d.buyer, d.seller>>))}
    IN  {[company |-> d.company, reportDate |-> d.reportDate,
          headline |-> e.headline, summary |-> e.summary,
          dates |-> e.dates, money |-> e.money,
          roche |-> p.roche, fullRoche |-> p.fullRoche, with |-> p.with,
          between |-> p.between, pharma |-> p.pharma,
          scope |-> t.scope, upfront |-> t.upfront, milestone |-> t.milestone,
          target |-> x.target, buyer |-> x.buyer, seller |-> x.seller] :
            d \in docs, e \in events, p \in ps, t \in ts, x \in ds}

\* the document was ingested (or its manifest is missing) and chunked (or
\* not, and has no chunk directory)
InitExtract ==
    /\ \/ /\ \E r \in ExtractRuns : InitChunked(r[1], r[2][1], r[2][2])
          /\ manifest \in Manifests
       \/ /\ fullText \in {DocLong, DocDeal}
          /\ manifestOk \in BOOLEAN
          /\ manifest = ManifestIngest
          /\ targetSize = 0
          /\ overlap = 0
          /\ chunkFiles = EmptyDir
          /\ indexJson = <<>>
          /\ chunkStatus = "idle"
          /\ lastWritten = {}
          /\ repeated = FALSE
    /\ chunks = <<>>
    /\ searchText = Null
    /\ ev = <<>>
    /\ captured = <<>>
    /\ extracted = <<>>
    /\ extractStatus = "idle"
    /\ call = <<>>
    /\ returned = <<>>
    /\ IdleRest

\* one run of extract-manual.js for the document; got is what its patterns
\* capture from the text
Extract ==
    /\ extractStatus = "idle"
    /\ IF ~manifestOk
       THEN \* manifest.json not found: exit 1
            /\ extractStatus' = "error"
            /\ UNCHANGED <<chunks, captured, extracted>>
       ELSE \E cs \in {loadChunks(chunkDirExists, chunkFiles)} :
            \E got \in FoundIn(joinChunks(cs)) :
            \E output \in {run(manifest, cs, got)} :
               /\ chunks' = cs
               /\ captured' = <<got>>
               /\ IF \E i \in 1..Len(output.evidence) : output.evidence[i].threw
                  THEN \* the catch of run(): exit 1, nothing written
                       /\ extractStatus' = "error"
                       /\ extracted' = <<>>
                  ELSE /\ extractStatus' = "done"
                       /\ extracted' = <<output>>
    /\ UNCHANGED <<chunkVars, manifest, searchText, ev, helperVars, restVars>>

NextExtract == Extract

SpecExtract == InitExtract /\ [][NextExtract]_vars

-----------------------------------------------------------------------------
(* The helpers of extract-manual.js, each called alone on one argument. *)

\* the accession texts hold at most MaxDigits digits
MaxDigits == 19

\* a run of n digits: the accession number of scenario 3, then more digits
DigitRun(n) == SubSeq("000119312523194715" \o Digits \o Digits, 1, n)

\* where a separator may stand in a run of digits
SeparatorsAt == {0, 4, 10, 12}

\* the run of n digits with sep after its first i and after its first j digits
Separated(n, i, j, sep) ==
    LET lo == Min(Min(i, j), n)
        hi == Min(Max(i, j), n)
    IN  SubSeq(DigitRun(n), 1, lo) \o sep \o SubSeq(DigitRun(n), lo + 1, hi)
            \o sep \o SubSeq(DigitRun(n), hi + 1, n)

\* the arguments of formatAccession: null, and runs of digits with a
\* separator (or none) at up to two places; digits is the run of the text
AccessionCalls ==
    {[fn |-> "formatAccession", arg |-> Null, digits |-> ""]}
    \cup {[fn |-> "formatAccession",
           arg |-> Str(Separated(n, i, j, sep)),
           digits |-> DigitRun(n)] :
             n \in 0..MaxDigits, i \in SeparatorsAt, j \in SeparatorsAt,
             sep \in {"", "-", "/", "x"}}

\* formatAccession has not returned yet
Pending(fn) == call # <<>> /\ call[1].fn = fn /\ returned = <<>>

FormatAccession ==
    /\ Pending("formatAccession")
    /\ returned' = <<formatAccession(call[1].arg)>>
    /\ UNCHANGED <<chunkVars, evidenceVars, extractVars, call, restVars>>

\* the amounts the calls ask for stay below this (the integers of the model
\* are 32 bits wide)
MaxUSD == 2000000000

\* the whole part of a figure as written, with its value
Wholes ==
    {[text |-> "0", value |-> 0], [text |-> "1", value |-> 1],
     [text |-> "12", value |-> 12], [text |-> "75", value |-> 75],
     [text |-> "2,147", value |-> 2147], [text |-> "500,000", value |-> 500000],
     [text |-> "1,250,000", value |-> 1250000]}

\* the decimals of a figure as written, with their value
Decimals ==
    {[text |-> "", value |-> 0, places |-> 0], [text |-> ".2", value |-> 2, places |-> 1],
     [text |-> ".5", value |-> 5, places |-> 1], [text |-> ".25", value |-> 25, places |-> 2],
     [text |-> ".49", value |-> 49, places |-> 2], [text |-> ".001", value |-> 1, places |-> 3]}

\* what follows the number, with the power of ten it stands for
Scales ==
    {[text |-> "", exp |-> 0], [text |-> " dollars", exp |-> 0],
     [text |-> " thousand", exp |-> 3], [text |-> " million", exp |-> 6],
     [text |-> " billion", exp |-> 9], [text |-> "million", exp |-> 6],
     [text |-> " Billion", exp |-> 9], [text |-> " MILLION in cash", exp |-> 6]}

\* the figures whose product is a whole number or which have no scale word,
\* and which fit the integers of the model
Figures ==
    {f \in Wholes \X Decimals \X Scales :
        /\ (f[1].value + 1) <= MaxUSD \div Pow10(f[3].exp)
        /\ (f[3].exp = 0 \/ f[2].places <= f[3].exp)
        /\ (f[3].exp < f[2].places
               => (f[1].value + 1) <= MaxUSD \div (2 * Pow10(f[2].places)))}

\* a marker, a figure and a closing parenthesis, and texts without a number
MoneyCalls ==
    {[fn |-> "parseMoneyToUSD", arg |-> Null, whole |-> 0, decimals |-> 0, places |-> 0, exp |-> 0, number |-> FALSE],
     [fn |-> "parseMoneyToUSD", arg |-> Str(""), whole |-> 0, decimals |-> 0, places |-> 0, exp |-> 0, number |-> FALSE],
     [fn |-> "parseMoneyToUSD", arg |-> Str("$ million"), whole |-> 0, decimals |-> 0, places |-> 0, exp |-> 0, number |-> FALSE]}
    \cup {[fn |-> "parseMoneyToUSD",
           arg |-> Str(open \o f[1].text \o f[2].text \o f[3].text \o close),
           whole |-> f[1].value, decimals |-> f[2].value, places |-> f[2].places,
           exp |-> f[3].exp, number |-> TRUE] :
              open \in {"", "$", "USD ", "USD", "($", " $ "}, close \in {"", ")"},
              f \in Figures}

ParseMoney ==
    /\ Pending("parseMoneyToUSD")
    /\ returned' = <<parseMoneyToUSD(call[1].arg)>>
    /\ UNCHANGED <<chunkVars, evidenceVars, extractVars, call, restVars>>

\* the categories of detectEventKind, the first tested first
Kinds == <<"Collaboration", "Merger", "Partnership", "Financing">>

\* two ways a text can name each category
Phrase ==
    [Collaboration |-> <<"a license agreement", "their collaborative work">>,
     Merger |-> <<"the merger", "a Purchase Agreement">>,
     Partnership |-> <<"a partner", "a STRATEGIC ALLIANCE">>,
     Financing |-> <<"a loan", "an underwritten offering">>]

\* the phrases of the categories ks, in that order
RECURSIVE Phrases(_, _)
Phrases(ks, variant) ==
    IF ks = <<>> THEN ""
    ELSE Phrase[Head(ks)][variant]
            \o (IF Len(ks) > 1 THEN " and " ELSE "") \o Phrases(Tail(ks), variant)

Reversed(q) == [i \in 1..Len(q) |-> q[Len(q) + 1 - i]]

\* texts naming any set of categories in either order, and texts naming none
KindCalls ==
    {[fn |-> "detectEventKind", arg |-> t, kinds |-> {}] :
        t \in {"", "The company has partners, loans and mergers.",
               "A fiscal year ended; no agreement was signed."}}
    \cup {[fn |-> "detectEventKind",
           arg |-> "The company announced "
                       \o Phrases(SelectSeq(order, LAMBDA k : k \in present), variant) \o ".",
           kinds |-> present] :
              order \in {Kinds, Reversed(Kinds)}, variant \in {1, 2},
              present \in (SUBSET {Kinds[i] : i \in 1..Len(Kinds)}) \ {{}}}

DetectEventKind ==
    /\ Pending("detectEventKind")
    /\ returned' = <<detectEventKind(call[1].arg)>>
    /\ UNCHANGED <<chunkVars, evidenceVars, extractVars, call, restVars>>

HelperCalls == AccessionCalls \cup MoneyCalls \cup KindCalls

InitHelpers ==
    /\ fullText = ""
    /\ manifestOk = TRUE
    /\ targetSize = 0
    /\ overlap = 0
    /\ chunkFiles = EmptyDir
    /\ indexJson = <<>>
    /\ chunkStatus = "idle"
    /\ lastWritten = {}
    /\ repeated = FALSE
    /\ chunks = <<>>
    /\ searchText = Null
    /\ ev = <<>>
    /\ manifest = ManifestIngest
    /\ captured = <<>>
    /\ extracted = <<>>
    /\ extractStatus = "idle"
    /\ call \in {<<c>> : c \in HelperCalls}
    /\ returned = <<>>
    /\ IdleRest

NextHelpers == FormatAccession \/ ParseMoney \/ DetectEventKind

SpecHelpers == InitHelpers /\ [][NextHelpers]_vars

-----------------------------------------------------------------------------
(* validate.js and server.js: the evidence validator, run as a child process
   by the handlers of POST /api/process and POST /api/validate. *)

\* no command-line stage has run
IdleCli ==
    /\ fullText = ""
    /\ manifestOk = TRUE
    /\ targetSize = 0
    /\ overlap = 0
    /\ chunkFiles = EmptyDir
    /\ indexJson = <<>>
    /\ chunkStatus = "idle"
    /\ lastWritten = {}
    /\ repeated = FALSE
    /\ chunks = <<>>
    /\ searchText = Null
    /\ ev = <<>>
    /\ manifest = ManifestIngest
    /\ captured = <<>>
    /\ extracted = <<>>
    /\ extractStatus = "idle"
    /\ call = <<>>
    /\ returned = <<>>

\* An extraction record as validate.js sees it: whether it passes the schema,
\* and its primitive fields in the order walk() meets them, each with its
\* value (null or not) and, for each of its evidence rows, what the checks
\* of lines 83-92 find: "ok", "no file" (the chunk file is missing) or "no
\* snippet" (the chunk does not hold the snippet).
FieldCases ==
    {[isNull |-> TRUE, rows |-> <<>>],
     [isNull |-> FALSE, rows |-> <<>>],
     [isNull |-> FALSE, rows |-> <<"ok">>],
     [isNull |-> FALSE, rows |-> <<"no snippet">>],
     [isNull |-> FALSE, rows |-> <<"no file", "ok", "no snippet">>]}

FieldPaths == <<"doc.accession", "event.kind">>

Records ==
    {[schemaValid |-> TRUE,
      fields |-> <<[path |-> FieldPaths[1], isNull |-> a.isNull, rows |-> a.rows],
                   [path |-> FieldPaths[2], isNull |-> b.isNull, rows |-> b.rows]>>] :
         a \in FieldCases, b \in FieldCases}
    \cup {[schemaValid |-> FALSE,
           fields |-> <<[path |-> FieldPaths[1], isNull |-> FALSE, rows |-> <<>>]>>]}

\* lines 82-93: the errors of the evidence rows of a field, from the i-th on
RECURSIVE rowErrors(_, _)
rowErrors(field, i) ==
    IF i > Len(field.rows) THEN <<>>
    ELSE (CASE field.rows[i] = "no file" -> <<"Missing chunk file: " \o field.path>>
            [] field.rows[i] = "no snippet" ->
                   <<"Evidence snippet not found for field " \o field.path>>
            [] OTHER -> <<>>)
         \o rowErrors(field, i + 1)

\* checkField(fieldPath, value): the errors it pushes
checkField(field) ==
    IF field.isNull THEN <<>>
    ELSE IF field.rows = <<>>
    THEN <<"No evidence found for non-null field: " \o field.path>>
    ELSE rowErrors(field, 1)

\* mutant: the walk ends at the first field that has an error
RECURSIVE walkUntilError(_)
walkUntilError(fields) ==
    IF fields = <<>> THEN <<>>
    ELSE IF checkField(Head(fields)) # <<>> THEN checkField(Head(fields))
    ELSE walkUntilError(Tail(fields))

\* walk(data): the errors pushed for the fields of the record, in order
RECURSIVE walk(_)
walk(fields) ==
    IF fields = <<>> THEN <<>>
    ELSE checkField(Head(fields)) \o walk(Tail(fields))

\* main() of validate.js: the exit code and the errors it reports
validateMain(rec, chunkDir) ==
    IF rec = <<>> THEN [code |-> 1, errors |-> <<>>]          \* readFile throws
    ELSE IF ~rec[1].schemaValid THEN [code |-> 1, errors |-> <<>>]
    ELSE IF ~chunkDir THEN [code |-> 1, errors |-> <<>>]
    ELSE LET errors == walk(rec[1].fields)
         IN  [code |-> IF errors # <<>> THEN 1 ELSE 0, errors |-> errors]

\* the stages of /api/process that run a child process, in order
Stages == <<"ingest", "chunk", "extract", "validate">>

\* what a stage leaves on disk when its process exits with code 0
ArtifactOf(stage) ==
    CASE stage = "ingest" -> {"manifest.json"}
      [] stage = "chunk" -> {"chunks"}
      [] stage = "extract" -> {"extraction"}
      [] OTHER -> {}

Artifacts == {"manifest.json", "chunks", "extraction"}

\* the bodies of the requests
Requests ==
    {[endpoint |-> "process", url |-> u, useAI |-> ai] :
        u \in {"", "not a url", "https://www.sec.gov/Archives/edgar/data/1/2/d.htm"},
        ai \in BOOLEAN}
    \cup {[endpoint |-> "validate", docId |-> d, isAI |-> ai] :
             d \in {"", "1-2"}, ai \in BOOLEAN}

\* the server has received a request; the document may have artifacts of
\* earlier runs
InitServer ==
    /\ IdleCli
    /\ IdleIngest
    /\ IdleRetry
    /\ request \in {<<r>> : r \in Requests}
    /\ pc = "start"
    /\ started = <<>>
    /\ disk \in SUBSET Artifacts
    /\ record \in IF "extraction" \in disk THEN {<<r>> : r \in Records} ELSE {<<>>}
    /\ validation = <<>>
    /\ result = [data |-> <<>>, report |-> FALSE, error |-> Null, warned |-> FALSE]
    /\ response = <<>>

Processing(step) ==
    /\ request # <<>> /\ request[1].endpoint = "process"
    /\ pc = step
    /\ response = <<>>

\* lines 99-106: the body is read and the document id extracted
ProcessStart ==
    /\ Processing("start")
    /\ IF request[1].url = ""
       THEN /\ response' = <<[status |-> 400, error |-> Str("Missing URL parameter")]>>
            /\ pc' = "done"
       ELSE IF request[1].url = "not a url"
       THEN /\ response' = <<[status |-> 400, error |-> Str("Invalid SEC URL")]>>
            /\ pc' = "done"
       ELSE /\ pc' = "ingest"
            /\ UNCHANGED response
    /\ UNCHANGED <<request, started, disk, record, validation, result, cliVars>>

\* mutant: the exit code of the child process is not looked at
afterStageAnyCode(stage, code) ==
    CASE stage = "ingest" -> "chunk"
      [] stage = "chunk" -> "extract"
      [] OTHER -> "validate"

\* lines 44-50 and 116-138: runCommand rejects on a non-zero code and the
\* handler's catch answers; on code 0 the next stage follows
afterStage(stage, code) ==
    IF code # 0 THEN "failed"
    ELSE CASE stage = "ingest" -> "chunk"
           [] stage = "chunk" -> "extract"
           [] OTHER -> "validate"

\* lines 116-138 and 178-186: a stage of the pipeline runs as a child
\* process, which exits with code 0 after writing its artifact or with
\* another code
RunStage(stage) ==
    /\ Processing(stage)
    /\ \E code \in {0, 1} :
       \E written \in (IF stage = "extract" THEN {<<r>> : r \in Records} ELSE {record}) :
          /\ (stage = "chunk" /\ code = 0) => "manifest.json" \in disk
          /\ started' = Append(started, [stage |-> stage, before |-> disk, code |-> code])
          /\ disk' = IF code = 0 THEN disk \cup ArtifactOf(stage) ELSE disk
          /\ record' = IF code = 0 THEN written ELSE record
          /\ pc' = afterStage(stage, code)
    /\ UNCHANGED <<request, validation, result, response, cliVars>>

Ingest == RunStage("ingest")

Chunk == RunStage("chunk")

ExtractStage == RunStage("extract")

\* lines 178-186: the catch of the pipeline
ProcessFailed ==
    /\ Processing("failed")
    /\ result' = [result EXCEPT !.error = Str("Command failed with code 1")]
    /\ response' = <<[status |-> 500, data |-> result'.data, report |-> result'.report,
                      error |-> result'.error]>>
    /\ pc' = "done"
    /\ UNCHANGED <<request, started, disk, record, validation, cliVars>>

\* lines 140-156: validate.js runs; a failure is logged as a warning
ValidateStage ==
    /\ Processing("validate")
    /\ \E v \in {validateMain(record, "chunks" \in disk)} :
          /\ validation' = <<v>>
          /\ started' = Append(started, [stage |-> "validate", before |-> disk, code |-> v.code])
          /\ result' = [result EXCEPT !.warned = (v.code # 0)]
    /\ pc' = "load"
    /\ UNCHANGED <<request, disk, record, response, cliVars>>

\* lines 158-162: the extracted data is read when the file exists
LoadResults ==
    /\ Processing("load")
    /\ result' = [result EXCEPT !.data = IF "extraction" \in disk THEN record ELSE <<>>]
    /\ pc' = "report"
    /\ UNCHANGED <<request, started, disk, record, validation, response, cliVars>>

\* lines 164-176: the report is generated and the result sent
ReportAndRespond ==
    /\ Processing("report")
    /\ result' = [result EXCEPT !.report = (result.data # <<>>)]
    /\ response' = <<[status |-> 200, data |-> result'.data, report |-> result'.report,
                      error |-> result'.error]>>
    /\ pc' = "done"
    /\ UNCHANGED <<request, started, disk, record, validation, cliVars>>

\* lines 302-336: POST /api/validate
ApiValidate ==
    /\ request # <<>> /\ request[1].endpoint = "validate"
    /\ pc = "start"
    /\ IF request[1].docId = ""
       THEN /\ response' = <<[status |-> 400, error |-> Str("Missing docId")]>>
            /\ UNCHANGED <<validation, started>>
       ELSE IF "extraction" \notin disk
       THEN /\ response' = <<[status |-> 404, error |-> Str("Extraction not found")]>>
            /\ UNCHANGED <<validation, started>>
       ELSE \E v \in {validateMain(record, "chunks" \in disk)} :
               /\ validation' = <<v>>
               /\ started' = Append(started, [stage |-> "validate", before |-> disk,
                                              code |-> v.code])
               /\ response' = <<[status |-> 200, docId |-> request[1].docId,
                                 valid |-> (v.code = 0),
                                 error |-> IF v.code = 0 THEN Null
                                           ELSE Str("Command failed with code 1")]>>
    /\ pc' = "done"
    /\ UNCHANGED <<request, disk, record, result, cliVars>>

NextServer ==
    \/ ProcessStart
    \/ Ingest
    \/ Chunk
    \/ ExtractStage
    \/ ProcessFailed
    \/ ValidateStage
    \/ LoadResults
    \/ ReportAndRespond
    \/ ApiValidate

SpecServer == InitServer /\ [][NextServer]_vars

-----------------------------------------------------------------------------
(* report.js and server.js: the evidence coverage of a record. *)

\* the fields of a record that hold numbers
NumberFields == {"totalValueUSD", "upfrontPaymentUSD", "milestonesUSD"}

\* the objects countFields recurses into: evidence, validation and provenance
\* are skipped, partnership and deal are there when the record has them
countedSections(data) ==
    <<[name |-> "doc", obj |-> data.doc], [name |-> "event", obj |-> data.event]>>
    \o (IF data.partnership = <<>> THEN <<>>
        ELSE <<[name |-> "partnership", obj |-> data.partnership[1]]>>)
    \o (IF data.deal = <<>> THEN <<>> ELSE <<[name |-> "deal", obj |-> data.deal[1]]>>)

\* the dotted paths countFields counts: values that are not null and not ""
countedPaths(data) ==
    UNION {{s.name \o "." \o f :
               f \in {g \in DOMAIN s.obj :
                         /\ ~IsNull(s.obj[g])
                         /\ (g \in NumberFields \/ Val(s.obj[g]) # "")}} :
           s \in {countedSections(data)[i] : i \in 1..Len(countedSections(data))}}

\* ((n / total) * 100).toFixed(1), in tenths of a percent; 0 without fields
toFixed1(n, total) == IF total > 0 THEN (n * 1000 + total \div 2) \div total ELSE 0

\* report.js lines 74-109: coveragePercent
coveragePercent(data) ==
    LET totalFields == Cardinality(countedPaths(data))
        fieldsWithEvidence ==
            Cardinality({p \in countedPaths(data) :
                            \E i \in 1..Len(data.evidence) : data.evidence[i].field = p})
    IN  toFixed1(fieldsWithEvidence, totalFields)

\* server.js lines 424-448: coverage of generateReport
generateReportCoverage(data) ==
    toFixed1(Len(data.evidence), Cardinality(countedPaths(data)))

-----------------------------------------------------------------------------
(* ingest.js: the primary document and the exhibits are downloaded into
   data/raw/<docId>; the exhibit tasks run under pLimit(concurrency) and
   yield at every await. The content of a file is modelled by the URL it
   was fetched from. *)

\* the ingest runs explored for one filing and output directory
MaxRuns == 2

PrimaryUrl == "https://sec.gov/d/8k.htm"

\* the exhibit URLs that extractExhibitUrls finds in the primary document
ExhibitUrlLists ==
    {<<>>,
     <<"https://sec.gov/a/ex99.htm">>,
     <<"https://sec.gov/a/ex99.htm", "https://sec.gov/a/ex10.pdf">>,
     <<"https://sec.gov/a/ex99.htm", "https://sec.gov/b/ex99.htm">>,
     <<"https://sec.gov/a/ex-1.htm?v=1", "https://sec.gov/a/ex-1.htm?v=2#top">>}

\* s.split(sep)[0]
beforeFirst(s, sep) == IF indexOf(s, sep) < 0 THEN s ELSE Slice(s, 0, indexOf(s, sep))

\* s.split("/").pop()
RECURSIVE lastSegment(_)
lastSegment(s) ==
    IF indexOf(s, "/") < 0 THEN s ELSE lastSegment(Slice(s, indexOf(s, "/") + 1, Len(s)))

\* the characters /[^a-zA-Z0-9._-]/ leaves alone
FilenameChars == (WordChars \cup {".", "-"})

RECURSIVE replaceUnsafe(_)
replaceUnsafe(s) ==
    IF s = "" THEN ""
    ELSE (IF CharAt(s, 0) \in FilenameChars THEN CharAt(s, 0) ELSE "_")
            \o replaceUnsafe(Slice(s, 1, Len(s)))

\* sanitizeFilename(raw), for a raw name without percent escapes that does
\* not sanitize to the empty string
sanitizeFilename(raw) == replaceUnsafe(beforeFirst(beforeFirst(raw, "?"), "#"))

\* the offset of the last "." of s, or -1
RECURSIVE lastDot(_)
lastDot(s) ==
    IF s = "" THEN -1
    ELSE IF CharAt(s, Len(s) - 1) = "." THEN Len(s) - 1
    ELSE lastDot(Slice(s, 0, Len(s) - 1))

\* `${path.parse(fname).name}_${counter}${path.parse(fname).ext}`
numbered(fname, counter) ==
    IF lastDot(fname) <= 0 THEN fname \o "_" \o NumToString(counter)
    ELSE Slice(fname, 0, lastDot(fname)) \o "_" \o NumToString(counter)
             \o Slice(fname, lastDot(fname), Len(fname))

\* hashFile(buffer): the digest stands for the content it was computed from
hashFile(content) == Str("sha256 of " \o content)

\* fs.writeFile(dest, buf)
writeFile(dir, dest, content) ==
    [n \in DOMAIN dir \cup {dest} |-> IF n = dest THEN content ELSE dir[n]]

exhibitPath(destName) == "exhibits/" \o destName

\* the entry of a file in `files`, downloaded or failed
fileEntry(destName, url, content) ==
    [filename |-> exhibitPath(destName), url |-> url,
     sha256 |-> IF IsNull(content) THEN Null ELSE hashFile(Val(content)),
     error |-> IsNull(content)]

\* the tasks that pLimit has started and that have not finished
ActiveTasks == {i \in 1..Len(tasks) : tasks[i].pc \notin {"queued", "done"}}

InitIngest ==
    /\ IdleCli
    /\ IdleServer
    /\ IdleRetry
    /\ exhibitUrls \in ExhibitUrlLists
    /\ concurrency \in {1, 2}
    /\ rawDir = EmptyDir
    /\ tasks = <<>>
    /\ files = <<>>
    /\ fetched = <<>>
    /\ manifests = <<>>
    /\ ingestPc = "idle"

\* lines 185-197: a run starts; the primary document is read from the cache
\* or fetched, and one task per exhibit URL is handed to pLimit
StartIngest ==
    /\ ingestPc \in {"idle", "done"}
    /\ Len(manifests) < MaxRuns
    /\ files' = <<>>
    /\ IF "primary.html" \in DOMAIN rawDir
       THEN /\ fetched' = <<>>
            /\ ingestPc' = "exhibits"
            /\ UNCHANGED rawDir
       ELSE \E ok \in BOOLEAN :
               /\ fetched' = <<PrimaryUrl>>
               /\ rawDir' = IF ok THEN writeFile(rawDir, "primary.html", PrimaryUrl)
                            ELSE rawDir
               /\ ingestPc' = IF ok THEN "exhibits" ELSE "failed"
    /\ tasks' = IF ingestPc' = "exhibits"
                THEN [i \in 1..Len(exhibitUrls) |->
                         [url |-> exhibitUrls[i], fname |-> "", destName |-> "",
                          counter |-> 1, pc |-> "queued"]]
                ELSE <<>>
    /\ UNCHANGED <<exhibitUrls, concurrency, manifests>>
    /\ UNCHANGED <<chunkVars, evidenceVars, extractVars, helperVars, serverVars, retryVars>>

TaskStep(i, step) ==
    /\ ingestPc = "exhibits"
    /\ i \in 1..Len(tasks)
    /\ tasks[i].pc = step
    /\ UNCHANGED <<exhibitUrls, concurrency, manifests, ingestPc>>
    /\ UNCHANGED <<chunkVars, evidenceVars, extractVars, helperVars, serverVars, retryVars>>

\* lines 139-143: pLimit starts the next queued task when fewer than
\* `concurrency` are active; the task names its file
TaskStart(i) ==
    /\ TaskStep(i, "queued")
    /\ Cardinality(ActiveTasks) < concurrency
    /\ \A j \in 1..(i - 1) : tasks[j].pc # "queued"
    /\ tasks' = [tasks EXCEPT ![i].fname = sanitizeFilename(lastSegment(tasks[i].url)),
                              ![i].destName = sanitizeFilename(lastSegment(tasks[i].url)),
                              ![i].pc = "pick"]
    /\ UNCHANGED <<rawDir, files, fetched>>

\* lines 144-147: one test of the while loop
TaskPick(i) ==
    /\ TaskStep(i, "pick")
    /\ tasks' = IF exhibitPath(tasks[i].destName) \in DOMAIN rawDir
                THEN [tasks EXCEPT ![i].destName = numbered(tasks[i].fname, tasks[i].counter),
                                   ![i].counter = tasks[i].counter + 1]
                ELSE [tasks EXCEPT ![i].pc = "cache"]
    /\ UNCHANGED <<rawDir, files, fetched>>

\* lines 63-64: safeDownload tests whether dest exists
TaskCache(i) ==
    /\ TaskStep(i, "cache")
    /\ tasks' = [tasks EXCEPT ![i].pc = IF exhibitPath(tasks[i].destName) \in DOMAIN rawDir
                                        THEN "read" ELSE "fetch"]
    /\ UNCHANGED <<rawDir, files, fetched>>

\* lines 65-66 and 150-158: the cached file is read and its entry pushed
TaskRead(i) ==
    /\ TaskStep(i, "read")
    /\ files' = Append(files, fileEntry(tasks[i].destName, tasks[i].url,
                                        Str(rawDir[exhibitPath(tasks[i].destName)])))
    /\ tasks' = [tasks EXCEPT ![i].pc = "done"]
    /\ UNCHANGED <<rawDir, fetched>>

\* lines 73-79 and 159-170: the URL is fetched; a failure pushes an entry
\* with the error
TaskFetch(i) ==
    /\ TaskStep(i, "fetch")
    /\ fetched' = Append(fetched, tasks[i].url)
    /\ \E ok \in BOOLEAN :
          IF ok
          THEN /\ tasks' = [tasks EXCEPT ![i].pc = "write"]
               /\ UNCHANGED files
          ELSE /\ tasks' = [tasks EXCEPT ![i].pc = "done"]
               /\ files' = Append(files, fileEntry(tasks[i].destName, tasks[i].url, Null))
    /\ UNCHANGED rawDir

\* lines 81-83 and 150-158: the buffer is written to dest and its entry pushed
TaskWrite(i) ==
    /\ TaskStep(i, "write")
    /\ rawDir' = writeFile(rawDir, exhibitPath(tasks[i].destName), tasks[i].url)
    /\ files' = Append(files, fileEntry(tasks[i].destName, tasks[i].url, Str(tasks[i].url)))
    /\ tasks' = [tasks EXCEPT ![i].pc = "done"]
    /\ UNCHANGED fetched

\* lines 199-232: every task has finished; the manifest is written
FinishIngest ==
    /\ ingestPc = "exhibits"
    /\ \A i \in 1..Len(tasks) : tasks[i].pc = "done"
    /\ manifests' = Append(manifests,
                           [files |-> <<[filename |-> "primary.html", url |-> PrimaryUrl,
                                         sha256 |-> hashFile(rawDir["primary.html"]),
                                         error |-> FALSE]>> \o files,
                            names |-> DOMAIN rawDir,
                            fetched |-> fetched])
    /\ ingestPc' = "done"
    /\ UNCHANGED <<exhibitUrls, concurrency, rawDir, tasks, files, fetched>>
    /\ UNCHANGED <<chunkVars, evidenceVars, extractVars, helperVars, serverVars, retryVars>>

NextIngest ==
    \/ StartIngest
    \/ FinishIngest
    \/ \E i \in 1..2 :
          TaskStart(i) \/ TaskPick(i) \/ TaskCache(i) \/ TaskRead(i) \/ TaskFetch(i)
              \/ TaskWrite(i)

SpecIngest == InitIngest /\ [][NextIngest]_vars

-----------------------------------------------------------------------------
(* The calls of the AI extractors: callLLMWithRetry of extract-ai.js
   (client "gemini") and LocalLLMClient.extractWithRetry of the local
   extractor (client "local"). A request is answered or never answered; the
   timer of an attempt fires when the request is still pending. *)

\* the largest --max-retries explored
MaxRetries == 6

\* the longest wait between two attempts, in ms
BackoffCap == 10000

Clients == {"gemini", "local"}

\* the first wait, in ms
backoffBase(c) == IF c = "gemini" THEN 1000 ELSE 2000

RECURSIVE Pow2(_)
Pow2(n) == IF n = 0 THEN 1 ELSE 2 * Pow2(n - 1)

\* Math.min(base * Math.pow(2, attempt - 1), 10000)
backoffMs(c, k) == Min(backoffBase(c) * Pow2(k - 1), BackoffCap)

\* what a request is answered with: JSON, JSON in a ```json fence, text that
\* holds no JSON, or an error (a rejected promise, an HTTP error status)
Answers == {"json", "fenced", "text", "error"}

\* JSON.parse of the answer, or of the fenced block, succeeds
parses(answer) == answer \in {"json", "fenced"}

\* the AbortController of the attempt is wired to the request: fetch is
\* given controller.signal, model.generateContent is not
aborts(c) == c = "local"

InitRetry ==
    /\ IdleCli
    /\ IdleServer
    /\ IdleIngest
    /\ client \in Clients
    /\ maxRetries \in 1..MaxRetries
    /\ attempt = 1
    /\ retryPc = "loop"
    /\ timerFired = FALSE
    /\ responds = FALSE
    /\ attempts = <<>>

RetryStep(at) ==
    /\ retryPc = at
    /\ UNCHANGED <<client, maxRetries>>
    /\ UNCHANGED <<chunkVars, evidenceVars, extractVars, helperVars, serverVars, ingestVars>>

\* the catch of the loop: the attempt is counted as failed, and a wait
\* follows unless it was the last
failedAttempt(why) ==
    /\ attempts' = Append(attempts,
                          [attempt |-> attempt, outcome |-> why, late |-> timerFired,
                           wait |-> IF attempt < maxRetries
                                    THEN Num(backoffMs(client, attempt)) ELSE Null])
    /\ IF attempt < maxRetries
       THEN /\ retryPc' = "backoff"
            /\ UNCHANGED attempt
       ELSE /\ retryPc' = "loop"
            /\ attempt' = attempt + 1

\* the test of the for loop: the next attempt sends its request and starts
\* its timer, or the loop ends and the call throws
LoopTest ==
    /\ RetryStep("loop")
    /\ IF attempt <= maxRetries
       THEN /\ retryPc' = "request"
            /\ responds' \in BOOLEAN
       ELSE /\ retryPc' = "failed"
            /\ UNCHANGED responds
    /\ timerFired' = FALSE
    /\ UNCHANGED <<attempt, attempts>>

\* the request settles: a parsed answer is returned, anything else fails
\* the attempt
Respond ==
    /\ RetryStep("request")
    /\ responds
    /\ \E answer \in Answers :
          IF parses(answer)
          THEN /\ attempts' = Append(attempts, [attempt |-> attempt, outcome |-> answer,
                                                 late |-> timerFired, wait |-> Null])
               /\ retryPc' = "returned"
               /\ UNCHANGED attempt
          ELSE failedAttempt(answer)
    /\ UNCHANGED <<timerFired, responds>>

\* TIMEOUT_MS after the request was sent it is still pending: the timer
\* calls controller.abort(), which rejects a request that was given the signal
TimerFires ==
    /\ RetryStep("request")
    /\ ~timerFired
    /\ timerFired' = TRUE
    /\ IF aborts(client)
       THEN failedAttempt("timeout")
       ELSE UNCHANGED <<attempt, retryPc, attempts>>
    /\ UNCHANGED responds

\* the wait is over
BackoffDone ==
    /\ RetryStep("backoff")
    /\ attempt' = attempt + 1
    /\ retryPc' = "loop"
    /\ UNCHANGED <<timerFired, responds, attempts>>

NextRetry == LoopTest \/ Respond \/ TimerFires \/ BackoffDone

SpecRetry == InitRetry /\ [][NextRetry]_vars

\* the event loop runs every timer and every continuation that is due, and a
\* request that will be answered is answered
SpecRetryFair == SpecRetry /\ WF_vars(NextRetry)

-----------------------------------------------------------------------------
(* Claims about the chunker. *)

\* the chunk list of the index the latest completed run wrote
IndexChunks == indexJson[1].chunks

ValidParams == targetSize > 0 /\ 0 <= overlap /\ overlap < targetSize

\* the characters two chunks of the index have in common
Shared(a, b) == Max(Min(a.end, b.end) - Max(a.start, b.start), 0)

\* C1: with targetSize > 0 and 0 <= overlap < targetSize a run returns, and
\* its chunks cover [0, len(text)) with no gap: the first starts at 0, the
\* last ends at len(text), each next chunk starts no later than the previous
\* one ends, and two consecutive chunks share exactly `overlap` characters,
\* the pair that ends in the final chunk possibly excepted.
C1_Coverage ==
    (manifestOk /\ chunkStatus # "idle" /\ ValidParams) =>
        /\ chunkStatus = "done"
        /\ LET cs == IndexChunks
               n == Len(cs)
           IN  /\ \A k \in 0..(Len(fullText) - 1) :
                      \E i \in 1..n : cs[i].start <= k /\ k < cs[i].end
               /\ n > 0 => cs[1].start = 0 /\ cs[n].end = Len(fullText)
               /\ \A i \in 1..(n - 1) : cs[i + 1].start <= cs[i].end
               /\ \A i \in 1..(n - 2) : Shared(cs[i], cs[i + 1]) = overlap

\* a run with a positive overlap, three chunks or more and a short last chunk
C1_Witness ==
    /\ chunkStatus = "done" /\ ValidParams /\ overlap > 0
    /\ Len(IndexChunks) >= 3
    /\ LET l == IndexChunks[Len(IndexChunks)] IN l.end - l.start < targetSize

\* C2: a completed run repeated with the same text and the same parameters
\* writes the same index (count, offsets, file names) and the same files,
\* and leaves every chunk file with the same text, whatever the directory
\* held before.
C2_Deterministic ==
    [][(chunkStatus = "done" /\ chunkStatus' = "done"
            /\ targetSize' = targetSize /\ overlap' = overlap)
        => /\ indexJson' = indexJson
           /\ lastWritten' = lastWritten
           /\ chunkFiles' = chunkFiles]_vars

\* a run was repeated with the same parameters and wrote several chunks
C2_Witness == repeated /\ Len(IndexChunks) >= 2

\* C3: the i-th chunk (0-based) starts at i*(targetSize-overlap) and ends at
\* min(start+targetSize, len(text)); only the last chunk ends at len(text);
\* each chunk file holds that span of the text; and the 7,000-character text
\* with the defaults 3000/200 gives exactly 3 chunks, starting 0, 2800, 5600.
C3_Offsets ==
    (chunkStatus = "done" /\ ValidParams) =>
        LET cs == IndexChunks
            n == Len(cs)
        IN  /\ \A i \in 1..n :
                  /\ cs[i].start = (i - 1) * (targetSize - overlap)
                  /\ cs[i].end = Min(cs[i].start + targetSize, Len(fullText))
                  /\ (cs[i].end = Len(fullText)) <=> (i = n)
                  /\ cs[i].file = chunkFileName(i - 1)
                  /\ chunkFiles[cs[i].file] = Slice(fullText, cs[i].start, cs[i].end)
            /\ (n = 0) <=> (fullText = "")
            /\ (Len(fullText) = 7000 /\ targetSize = 3000 /\ overlap = 200) =>
                  [i \in 1..n |-> cs[i].start] = <<0, 2800, 5600>>

\* the 7,000-character text chunked with the defaults
C3_Witness ==
    /\ chunkStatus = "done" /\ Len(fullText) = 7000
    /\ targetSize = 3000 /\ overlap = 200 /\ Len(IndexChunks) = 3

\* C4: a run configured with overlap >= targetSize ends in an error and
\* writes neither chunk files nor the index.
C4_RejectsInvalidConfiguration ==
    (chunkStatus # "idle" /\ overlap >= targetSize) =>
        (chunkStatus = "error" /\ lastWritten = {})

-----------------------------------------------------------------------------
(* Claims about the evidence locator. *)

EmptyCandidate == IsNull(searchText) \/ Val(searchText) = ""

\* the candidate as findEvidence searches for it
Norm == trim(Val(searchText))

\* C5: every record findEvidence returns over a non-empty chunk list, the
\* marker record excepted, names a chunk file that exists and whose text
\* holds the trimmed snippet literally: the validator's check passes.
C5_SnippetVerbatim ==
    (ev # <<>> /\ chunks # <<>> /\ ~ev[1].threw /\ ev[1].snippet # MarkerSnippet)
        => snippetVerified(chunkFiles, ev[1])

\* a fuzzy match whose snippet was cut from text with capital letters
C5_Witness ==
    /\ ev # <<>> /\ chunks # <<>> /\ ~EmptyCandidate
    /\ evidenceTier(searchText, chunks) = "fuzzy"
    /\ ev[1].snippet # "" /\ toLowerCase(ev[1].snippet) # ev[1].snippet

\* C8: a null or empty candidate with a non-empty chunk list gives a record
\* that cites the first chunk (the file of the chunk at offset 0, in
\* sourceFile and selector) with exactly the first 200 characters of its text.
C8_EmptyCandidate ==
    (ev # <<>> /\ EmptyCandidate /\ chunks # <<>>) =>
        /\ ~ev[1].threw
        /\ chunks[1].file = IndexChunks[1].file
        /\ IndexChunks[1].start = 0
        /\ ev[1].sourceFile = chunks[1].file
        /\ ev[1].selector = "chunk:" \o chunks[1].file
        /\ ev[1].snippet = SubSeq(chunks[1].text, 1, Min(200, Len(chunks[1].text)))

\* an empty candidate over a first chunk longer than 200 characters
C8_Witness ==
    /\ ev # <<>> /\ searchText = Str("") /\ chunks # <<>>
    /\ Len(chunks[1].text) > 200

\* C9: findEvidence always returns a record, never throws: for the null, the
\* empty and every other candidate, over every chunk list, the empty one
\* included.
C9_Total ==
    ev # <<>> =>
        /\ ~ev[1].threw
        /\ ev[1].sourceFile # ""
        /\ ev[1].selector = "chunk:" \o ev[1].sourceFile
        /\ chunks = <<>> => ev[1].sourceFile = "unknown"

\* a candidate of short words only, matching no chunk
C9_Witness ==
    /\ ev # <<>> /\ chunks # <<>> /\ ~EmptyCandidate
    /\ fuzzyWords(Norm) = <<>>
    /\ evidenceTier(searchText, chunks) = "fallback"

\* more than 8 words and boilerplate vocabulary
SuspiciousCandidate ==
    ~EmptyCandidate /\ hasBoilerplate(Norm) /\ Len(splitSpaces(Norm)) > 8

\* C10: the first tier that succeeds answers, in the order empty candidate,
\* suspicious text, exact match, fuzzy match, first chunk: a suspicious
\* candidate gives the marker even when it occurs in a chunk; an exact match
\* in any chunk wins over a fuzzy match in an earlier chunk, the first chunk
\* with an exact match being cited; a fuzzy match is used only without any
\* exact match; the first chunk is the last resort.
C10_TierOrder ==
    (ev # <<>> /\ ~ev[1].threw) =>
        IF EmptyCandidate THEN ev[1] = firstChunkEvidence(chunks)
        ELSE IF SuspiciousCandidate THEN ev[1].snippet = MarkerSnippet
        ELSE IF exactChunks(chunks, Norm) # {}
        THEN /\ ev[1].sourceFile = chunks[First(exactChunks(chunks, Norm))].file
             /\ ev[1] = exactEvidence(chunks[First(exactChunks(chunks, Norm))], Norm)
        ELSE IF fuzzyChunks(chunks, fuzzyWords(Norm)) # {}
        THEN ev[1].sourceFile =
                 chunks[First(fuzzyChunks(chunks, fuzzyWords(Norm)))].file
        ELSE ev[1] = firstChunkEvidence(chunks)

\* an exact match in a later chunk answered although an earlier chunk
\* satisfies the fuzzy test
C10_Witness ==
    /\ ev # <<>> /\ ~EmptyCandidate /\ ~SuspiciousCandidate
    /\ exactChunks(chunks, Norm) # {}
    /\ fuzzyChunks(chunks, fuzzyWords(Norm)) # {}
    /\ First(fuzzyChunks(chunks, fuzzyWords(Norm))) < First(exactChunks(chunks, Norm))
    /\ ev[1].sourceFile = chunks[First(exactChunks(chunks, Norm))].file

-----------------------------------------------------------------------------
(* Claims about the record the rule extractor writes. *)

\* the record has an evidence record for the dotted path
Cited(output, path) ==
    \E i \in 1..Len(output.evidence) : output.evidence[i].field = path

\* every string field of the sub-record that is neither null nor "" is cited
TextCited(output, section, rec, fields) ==
    \A f \in fields :
        (~IsNull(rec[f]) /\ Val(rec[f]) # "") => Cited(output, section \o "." \o f)

\* every number field of the sub-record that is not null is cited
NumberCited(output, section, rec, fields) ==
    \A f \in fields : ~IsNull(rec[f]) => Cited(output, section \o "." \o f)

\* C6: in every record the extractor writes, each field of doc, event,
\* partnership and deal that is neither null nor the empty string has at
\* least one evidence record whose `field` is the dotted path of the field.
C6_EveryFieldCited ==
    extracted # <<>> =>
        LET o == extracted[1]
        IN  /\ TextCited(o, "doc", o.doc,
                         {"accession", "filingType", "filedDate", "companyName", "cik"})
            /\ TextCited(o, "event", o.event,
                         {"kind", "secItem", "headline", "summary", "effectiveDate"})
            /\ NumberCited(o, "event", o.event, {"totalValueUSD"})
            /\ o.partnership # <<>> =>
                  /\ TextCited(o, "partnership", o.partnership[1],
                               {"partnerA", "partnerB", "scope", "territory"})
                  /\ NumberCited(o, "partnership", o.partnership[1],
                                 {"upfrontPaymentUSD", "milestonesUSD"})
            /\ o.deal # <<>> =>
                  TextCited(o, "deal", o.deal[1], {"target", "buyer", "seller"})

\* a written record with a partnership all of whose fields have a value, and
\* with an accession number that no chunk holds
C6_Witness ==
    /\ extracted # <<>>
    /\ extracted[1].partnership # <<>>
    /\ LET o == extracted[1]
           p == o.partnership[1]
       IN  /\ \A f \in {"partnerA", "partnerB", "scope", "territory",
                        "upfrontPaymentUSD", "milestonesUSD"} : ~IsNull(p[f])
           /\ ~IsNull(o.event.totalValueUSD)
           /\ ~IsNull(o.doc.accession)
           /\ evidenceTier(o.doc.accession, chunks) = "fallback"

\* C7: a written record has a partnership only with both partnerA and
\* partnerB neither null nor empty; when a party of the partnership cannot be
\* resolved the record has no partnership at all, whatever scope, territory,
\* upfront payment and milestones were extracted.
C7_PartnershipAtomic ==
    extracted # <<>> =>
        LET o == extracted[1]
            p == partners(o.doc.companyName, captured[1])
        IN  /\ o.partnership # <<>> =>
                  /\ TruthyStr(o.partnership[1].partnerA)
                  /\ TruthyStr(o.partnership[1].partnerB)
            /\ (~TruthyStr(p.partnerA) \/ ~TruthyStr(p.partnerB)) =>
                  o.partnership = <<>>

\* the text is about a partnership whose scope, territory and upfront
\* payment were extracted, partner B was not resolved, and the record was
\* written without a partnership
C7_Witness ==
    /\ extracted # <<>>
    /\ LET text == joinChunks(chunks)
           window == contextWindow(text)
           whole == partnershipOf(extracted[1].doc.companyName, window, captured[1])
       IN  /\ isPartnership(window)
           /\ TruthyStr(whole.partnerA) /\ ~TruthyStr(whole.partnerB)
           /\ ~IsNull(whole.scope) /\ ~IsNull(whole.territory)
           /\ ~IsNull(whole.upfrontPaymentUSD)
    /\ extracted[1].partnership = <<>>

-----------------------------------------------------------------------------
(* Further claims about the evidence locator. *)

\* C11: a record that findEvidence returns from another tier than the exact
\* match (a fuzzy match, or the first chunk as a placeholder) carries the
\* marker snippet, so that the record alone tells it from an exact match.
C11_LowerTiersMarked ==
    (ev # <<>> /\ ~ev[1].threw /\ evidenceTier(searchText, chunks) # "exact")
        => ev[1].snippet = MarkerSnippet

-----------------------------------------------------------------------------
(* Claims about the helpers. *)

\* the helper was called and has returned
Returned(fn) == call # <<>> /\ call[1].fn = fn /\ returned # <<>>

\* ten digits, a dash, two digits, a dash, six digits
TenTwoSix(s) ==
    /\ Len(s) = 20
    /\ SubSeq(s, 11, 11) = "-" /\ SubSeq(s, 14, 14) = "-"
    /\ \A i \in (1..20) \ {11, 14} : \E k \in 1..10 : SubSeq(s, i, i) = SubSeq(Digits, k, k)

\* C12: formatAccession returns the digits of an input with exactly 18 digits
\* grouped 10-2-6, returns an input already in that form unchanged (applying
\* it again changes nothing), and returns null for every other input: its
\* result is null or of the form \d{10}-\d{2}-\d{6}.
C12_AccessionNormalized ==
    Returned("formatAccession") =>
        LET d == call[1].digits
            r == returned[1]
        IN  /\ Len(d) = 18 =>
                  r = Str(SubSeq(d, 1, 10) \o "-" \o SubSeq(d, 11, 12) \o "-"
                              \o SubSeq(d, 13, 18))
            /\ (~IsNull(call[1].arg) /\ TenTwoSix(Val(call[1].arg))) => r = call[1].arg
            /\ Len(d) # 18 => r = Null
            /\ ~IsNull(r) => TenTwoSix(Val(r)) /\ formatAccession(r) = r

\* scenario 3: the 18 digits without a separator
C12_Witness ==
    /\ Returned("formatAccession")
    /\ call[1].arg = Str("000119312523194715")
    /\ returned[1] = Str("0001193125-23-194715")

-----------------------------------------------------------------------------
(* Claims about the validation report of the written record. *)

EffectiveDateIssue ==
    "event.effectiveDate is after doc.filedDate (should be earlier or same)"

\* the year, month and day of an ISO calendar day
YearOf(iso) == parseDigits(SubSeq(iso, 1, 4))
MonthOf(iso) == parseDigits(SubSeq(iso, 6, 7))
DayOf(iso) == parseDigits(SubSeq(iso, 9, 10))

\* the day a is later than the day b
After(a, b) ==
    \/ YearOf(a) > YearOf(b)
    \/ YearOf(a) = YearOf(b) /\ MonthOf(a) > MonthOf(b)
    \/ YearOf(a) = YearOf(b) /\ MonthOf(a) = MonthOf(b) /\ DayOf(a) > DayOf(b)

\* C13: crossField holds the effective-date issue if and only if the record
\* has both event.effectiveDate and doc.filedDate and the effective date is
\* strictly after the filed date; equal dates give no issue.
C13_EffectiveDateIssue ==
    extracted # <<>> =>
        LET o == extracted[1]
            eff == o.event.effectiveDate
            filed == o.doc.filedDate
            cf == o.validation.crossField
        IN  (\E i \in 1..Len(cf) : cf[i] = EffectiveDateIssue)
                <=> (/\ TruthyStr(eff) /\ TruthyStr(filed)
                     /\ After(Val(eff), Val(filed)))

\* scenario 4: effective 2023-08-01, filed 2023-07-26
C13_Witness ==
    /\ extracted # <<>>
    /\ extracted[1].event.effectiveDate = Str("2023-08-01")
    /\ extracted[1].doc.filedDate = Str("2023-07-26")
    /\ \E i \in 1..Len(extracted[1].validation.crossField) :
          extracted[1].validation.crossField[i] = EffectiveDateIssue

\* the figure times ten to the power exp, to the nearest integer, halves up
Scaled(whole, decimals, places, exp) ==
    LET n == whole * Pow10(places) + decimals
    IN  IF exp >= places THEN n * Pow10(exp - places)
        ELSE (2 * n + Pow10(places - exp)) \div (2 * Pow10(places - exp))

\* C14: parseMoneyToUSD strips commas and parentheses, reads an optional $ or
\* USD marker, a number and an optional scale word, multiplies by 1e3, 1e6 or
\* 1e9 for thousand, million or billion and rounds to an integer; a text
\* without a number gives null.
C14_MoneyParsed ==
    Returned("parseMoneyToUSD") =>
        LET c == call[1]
        IN  returned[1] = IF c.number
                          THEN Num(Scaled(c.whole, c.decimals, c.places, c.exp))
                          ELSE Null

\* scenario 2: "$1.2 billion" gives 1200000000
C14_Witness ==
    /\ Returned("parseMoneyToUSD")
    /\ call[1].arg = Str("$1.2 billion")
    /\ returned[1] = Num(1200000000)

\* C16: detectEventKind returns the first of Collaboration, Merger,
\* Partnership and Financing that has a term in the text, whatever other
\* categories the text names and in whatever order, and null when the text
\* has no term of any of them.
C16_FixedPriority ==
    Returned("detectEventKind") =>
        LET present == {i \in 1..Len(Kinds) : Kinds[i] \in call[1].kinds}
        IN  returned[1] = IF present = {} THEN Null
                          ELSE Str(Kinds[CHOOSE i \in present : \A j \in present : i <= j])

\* a text that names a loan, a partner, the merger and a license agreement,
\* in that order, is a Collaboration
C16_Witness ==
    /\ Returned("detectEventKind")
    /\ call[1].arg = "The company announced a loan and a partner and the merger and a license agreement."
    /\ returned[1] = Str("Collaboration")

-----------------------------------------------------------------------------
(* Claims about the branches of the rule extractor. *)

\* the context window of the text the run read
WindowRead == contextWindow(joinChunks(chunks))

\* C15: no record written by the rule extractor holds both a partnership and
\* a deal, and the record of a filing whose context window has both the
\* partnership words and the deal words holds no deal.
C15_PartnershipBeforeDeal ==
    extracted # <<>> =>
        /\ ~(extracted[1].partnership # <<>> /\ extracted[1].deal # <<>>)
        /\ (isPartnership(WindowRead) /\ isDeal(WindowRead)) => extracted[1].deal = <<>>

\* the window names a license agreement and an acquisition: the record holds
\* the partnership and no deal
C15_Witness ==
    /\ extracted # <<>>
    /\ isPartnership(WindowRead) /\ isDeal(WindowRead)
    /\ extracted[1].partnership # <<>>
    /\ extracted[1].deal = <<>>

-----------------------------------------------------------------------------
(* Claims about the event of the written record. *)

\* the converted values of the money matches of the run
ConvertedValues ==
    {parseMoneyToUSD(Str(captured[1].money[i])) : i \in 1..Len(captured[1].money)}

\* C17: event.totalValueUSD is the largest of the converted values of the
\* money matches found in the context window, and null when the window has
\* no such match.
C17_TotalIsMaximum ==
    extracted # <<>> =>
        extracted[1].event.totalValueUSD =
            IF captured[1].money = <<>> THEN Null
            ELSE CHOOSE v \in ConvertedValues : \A u \in ConvertedValues : Val(u) <= Val(v)

-----------------------------------------------------------------------------
(* Claims about the evidence of the written record. *)

\* the sub-record of the record that a dotted path starts with, or none
SectionAt(output, section) ==
    CASE section = "doc" -> <<output.doc>>
      [] section = "event" -> <<output.event>>
      [] section = "partnership" -> output.partnership
      [] section = "deal" -> output.deal
      [] OTHER -> <<>>

\* the value of the record at a dotted path, null when it has none
FieldAt(output, path) ==
    LET dot == indexOf(path, ".")
        rec == SectionAt(output, Slice(path, 0, dot))
        name == Slice(path, dot + 1, Len(path))
    IN  IF rec = <<>> \/ name \notin DOMAIN rec[1] THEN Null ELSE rec[1][name]

\* C18: in every record written by the rule extractor, the `field` of every
\* evidence record addresses a field that the record has and that is not
\* null (provenance.documents addresses the list of cited documents).
C18_EvidenceOnlyForFields ==
    extracted # <<>> =>
        \A i \in 1..Len(extracted[1].evidence) :
            LET path == extracted[1].evidence[i].field
            IN  path # "provenance.documents" => ~IsNull(FieldAt(extracted[1], path))

-----------------------------------------------------------------------------
(* Claims about the hard constraints of the written record. *)

HexDigits ==
    {"0", "1", "2", "3", "4", "5", "6", "7", "8", "9",
     "a", "b", "c", "d", "e", "f", "A", "B", "C", "D", "E", "F"}

\* s is a string of 64 hexadecimal digits
IsHexDigest(s) == Len(s) = 64 /\ \A i \in 0..63 : CharAt(s, i) \in HexDigits

\* the violations of the hard constraints, as a set
Violations == {extracted[1].validation.hardConstraints[i] :
                  i \in 1..Len(extracted[1].validation.hardConstraints)}

\* C19: the hardConstraints list holds the violation of a check exactly when
\* the check fails: the accession is not of the 10-2-6 form, the filed date
\* is absent, the item marker is absent, the company name is absent or "Not
\* applicable", the content hash of a cited document is not a string of 64
\* hexadecimal digits.
C19_ViolationsExact ==
    extracted # <<>> =>
        LET o == extracted[1]
            cited == o.provenance.documents
        IN  /\ "Invalid accession format" \in Violations
                  <=> ~(TruthyStr(o.doc.accession) /\ TenTwoSix(Val(o.doc.accession)))
            /\ "Missing filed date" \in Violations <=> ~TruthyStr(o.doc.filedDate)
            /\ "Missing SEC Item number" \in Violations <=> ~TruthyStr(o.event.secItem)
            /\ "Missing or invalid company name" \in Violations
                  <=> (~TruthyStr(o.doc.companyName)
                          \/ Val(o.doc.companyName) = "Not applicable")
            /\ \A i \in 1..Len(cited) :
                  ("provenance.sha256 invalid for " \o cited[i].filename) \in Violations
                      <=> ~IsHexDigest(cited[i].sha256)

-----------------------------------------------------------------------------
(* Claims about the errors of the rule extractor. *)

\* C20: when the chunk directory of the document is missing, the rule
\* extractor stops with an error and writes no extraction record.
C20_MissingChunksFatal ==
    (~chunkDirExists /\ extractStatus # "idle")
        => (extractStatus = "error" /\ extracted = <<>>)

-----------------------------------------------------------------------------
(* Claims about the server and the validator. *)

\* the number of evidence violations of a field: none for a null field, one
\* for a field without evidence, else one for each row that fails
ViolationsOf(field) ==
    IF field.isNull THEN 0
    ELSE IF field.rows = <<>> THEN 1
    ELSE Cardinality({i \in 1..Len(field.rows) : field.rows[i] # "ok"})

RECURSIVE ViolationsIn(_)
ViolationsIn(fields) ==
    IF fields = <<>> THEN 0 ELSE ViolationsOf(Head(fields)) + ViolationsIn(Tail(fields))

\* the validator walked the record
Walked ==
    /\ validation # <<>> /\ record # <<>>
    /\ record[1].schemaValid /\ "chunks" \in disk

\* C21: the validator reports every evidence violation of the record; when
\* validate fails inside /api/process the data is still loaded, the report
\* generated and the answer is 200 with both; /api/validate answers 200 with
\* the docId whether validation passed or failed, when the extraction exists.
C21_ValidationNotFatal ==
    /\ Walked => Len(validation[1].errors) = ViolationsIn(record[1].fields)
    /\ (/\ request[1].endpoint = "process" /\ response # <<>>
        /\ validation # <<>> /\ validation[1].code # 0)
          => (/\ response[1].status = 200
              /\ response[1].data # <<>>
              /\ response[1].report)
    /\ (/\ request[1].endpoint = "validate" /\ response # <<>>
        /\ request[1].docId # "" /\ "extraction" \in disk)
          => (response[1].status = 200 /\ response[1].docId = request[1].docId)

\* validate failed with four violations in two fields, and /api/process
\* answered 200 with the data and the report
C21_Witness ==
    /\ request[1].endpoint = "process" /\ response # <<>>
    /\ Walked /\ Len(validation[1].errors) = 4
    /\ response[1].status = 200 /\ response[1].data # <<>> /\ response[1].report

\* the stages whose process exited with another code than 0
Failed == {i \in 1..Len(started) : started[i].code # 0}

-----------------------------------------------------------------------------
(* Claims about ingest. *)

\* the filename and hash of every entry of a manifest
Listed(m) == {<<m.files[k].filename, m.files[k].sha256>> : k \in 1..Len(m.files)}

\* every download of the run that wrote m succeeded
AllDownloaded(m) == \A k \in 1..Len(m.files) : ~m.files[k].error

\* C23: re-running ingest for the same URL and output directory is
\* idempotent: when the first run downloaded every file, the second run
\* fetches nothing from the network, leaves the files of the output
\* directory as they were, and writes a manifest with the same filenames
\* and hashes as the first
C23_RerunIdempotent ==
    (Len(manifests) = 2 /\ AllDownloaded(manifests[1]))
        => /\ manifests[2].fetched = <<>>
           /\ manifests[2].names = manifests[1].names
           /\ Listed(manifests[2]) = Listed(manifests[1])

\* the part of C23 the code keeps: the primary document of a second run
\* comes from the cache, with the hash of the first run
C23_PrimaryCached ==
    Len(manifests) = 2
        => /\ PrimaryUrl \notin {manifests[2].fetched[k] : k \in 1..Len(manifests[2].fetched)}
           /\ manifests[2].files[1] = manifests[1].files[1]

\* the tasks of two different URLs that were given the same sanitized name
SameName(i, j) ==
    /\ i # j
    /\ tasks[i].url # tasks[j].url
    /\ tasks[i].pc = "done"
    /\ tasks[j].pc = "done"
    /\ tasks[i].fname = tasks[j].fname

\* the exhibit entries of `files` that are downloads
Stored == {k \in 1..Len(files) : ~files[k].error}

\* C29: with concurrency > 1, two distinct exhibit URLs with equal
\* sanitized filenames are stored under distinct destination paths: when
\* every download succeeds, no file holds content other than that of the URL
\* its entry names, and the manifest lists no exhibit filename twice
C29_DistinctPaths ==
    (concurrency > 1 /\ ingestPc = "done" /\ Len(manifests) = 1 /\ Stored = 1..Len(files))
        => /\ \A i, j \in 1..Len(tasks) :
                 SameName(i, j) => tasks[i].destName # tasks[j].destName
           /\ \A k \in Stored : rawDir[files[k].filename] = files[k].url
           /\ \A k, l \in 1..Len(files) :
                 files[k].filename = files[l].filename => k = l

\* the same statement for tasks run one at a time, which the code keeps
C29_SequentialDistinct ==
    (concurrency = 1 /\ ingestPc = "done" /\ Len(manifests) = 1 /\ Stored = 1..Len(files))
        => /\ \A i, j \in 1..Len(tasks) :
                 SameName(i, j) => tasks[i].destName # tasks[j].destName
           /\ \A k \in Stored : rawDir[files[k].filename] = files[k].url
           /\ \A k, l \in 1..Len(files) :
                 files[k].filename = files[l].filename => k = l

\* two URLs were given the same sanitized name in a sequential run
C29_SequentialCase ==
    /\ concurrency = 1
    /\ ingestPc = "done"
    /\ \E i, j \in 1..Len(tasks) : SameName(i, j) /\ tasks[j].destName = "ex-1_1.htm"

-----------------------------------------------------------------------------
(* More claims about the chunker. *)

\* the run wrote one chunk, the whole text from offset 0
OneChunk ==
    /\ Len(IndexChunks) = 1
    /\ IndexChunks[1].start = 0
    /\ IndexChunks[1].end = Len(fullText)
    /\ chunkFiles[IndexChunks[1].file] = fullText

\* C27: a text shorter than targetSize, the empty text included, is chunked
\* into exactly one chunk that spans the whole text from offset 0
C27_ShortTextOneChunk ==
    (chunkStatus = "done" /\ Len(fullText) < targetSize) => OneChunk

\* the part of C27 the code keeps: a text that is not empty and no longer
\* than targetSize gives one chunk
C27_NonEmptyOneChunk ==
    (chunkStatus = "done" /\ fullText # "" /\ Len(fullText) <= targetSize) => OneChunk

\* the lengths of the substrings examined: every length up to overlap + 1
\* for the small overlaps, the ends of that range for the default overlap
SpanLengths ==
    IF overlap <= MaxOverlap THEN 1..(overlap + 1) ELSE {1, overlap, overlap + 1}

\* the substrings [a, b) of the text that are examined
Spans ==
    {s \in (0..Len(fullText)) \X SpanLengths : s[1] + s[2] <= Len(fullText)}

\* chunk c of the index holds the substring of length n that starts at a
Holds(c, a, n) ==
    /\ c.start <= a
    /\ a + n <= c.end
    /\ Len(fullText) <= MaxTextLen =>
          includes(chunkFiles[c.file], Slice(fullText, a, a + n))

\* C28: for 0 <= overlap < targetSize every substring of the text of at
\* most overlap + 1 characters lies inside one chunk, whose file holds it
C28_BoundaryFindable ==
    (chunkStatus = "done" /\ ValidParams) =>
        \A s \in Spans : \E i \in 1..Len(IndexChunks) : Holds(IndexChunks[i], s[1], s[2])

\* a substring of overlap + 1 characters starts in the first chunk, runs past
\* its end, and lies in the second
C28_Witness ==
    /\ chunkStatus = "done" /\ ValidParams /\ overlap > 0
    /\ Len(IndexChunks) >= 2
    /\ \E s \in Spans :
          /\ s[2] = overlap + 1
          /\ s[1] < IndexChunks[1].end
          /\ s[1] + s[2] > IndexChunks[1].end
          /\ Holds(IndexChunks[2], s[1], s[2])

\* the chunk_*.txt files of the chunk directory
ChunkFilesOnDisk == {f \in DOMAIN chunkFiles : startsWith(f, "chunk_") /\ endsWith(f, ".txt")}

\* C30: after any sequence of chunk runs for the document, the chunk_*.txt
\* files of the directory are the files listed in the index.json of the
\* latest run, and loadChunks returns that run's chunks in chunk order
C30_OnlyLatestChunks ==
    chunkStatus = "done" =>
        /\ ChunkFilesOnDisk = {IndexChunks[i].file : i \in 1..Len(IndexChunks)}
        /\ loadChunks(TRUE, chunkFiles) =
              [i \in 1..Len(IndexChunks) |->
                  [file |-> IndexChunks[i].file,
                   text |-> Slice(fullText, IndexChunks[i].start, IndexChunks[i].end)]]

\* the part of C30 the code keeps: the files listed in the latest index hold
\* the latest run's chunks, and loadChunks returns them first
C30_LatestChunksFirst ==
    chunkStatus = "done" =>
        \A i \in 1..Len(IndexChunks) :
            /\ loadChunks(TRUE, chunkFiles)[i].file = IndexChunks[i].file
            /\ loadChunks(TRUE, chunkFiles)[i].text =
                  Slice(fullText, IndexChunks[i].start, IndexChunks[i].end)

-----------------------------------------------------------------------------
(* The fuzzy tier of the evidence locator. *)

\* the first chunk the fuzzy tier accepts for the candidate
FuzzyChunk == chunks[First(fuzzyChunks(chunks, fuzzyWords(Norm)))]

\* the first candidate word that the chunk holds in any case
WordHeld(c) ==
    fuzzyWords(Norm)[First({i \in 1..Len(fuzzyWords(Norm)) :
                               includes(toLowerCase(c.text), toLowerCase(fuzzyWords(Norm)[i]))})]

\* the position in the chunk of the first candidate word it holds
AnchorOf(c) == indexOf(toLowerCase(c.text), toLowerCase(WordHeld(c)))

\* C26: a fuzzy match cites the first chunk that holds enough of the
\* candidate's first six long words, and its snippet is the window from 80
\* characters before the position of the first candidate word the chunk
\* holds, whatever the letter case of the candidate's words
C26_FuzzyAnchor ==
    (ev # <<>> /\ ~EmptyCandidate /\ evidenceTier(searchText, chunks) = "fuzzy") =>
        /\ ~ev[1].threw
        /\ ev[1].sourceFile = FuzzyChunk.file
        /\ ev[1].snippet = fuzzyWindow(FuzzyChunk.text, AnchorOf(FuzzyChunk))

\* the part of C26 the code keeps: the chunk cited, and the anchor when the
\* first word held is written in lower case in the candidate
C26_LowerCaseAnchor ==
    (ev # <<>> /\ ~EmptyCandidate /\ evidenceTier(searchText, chunks) = "fuzzy") =>
        /\ ~ev[1].threw
        /\ ev[1].sourceFile = FuzzyChunk.file
        /\ WordHeld(FuzzyChunk) = toLowerCase(WordHeld(FuzzyChunk))
              => ev[1].snippet = fuzzyWindow(FuzzyChunk.text, AnchorOf(FuzzyChunk))

-----------------------------------------------------------------------------
(* Claims about the reports. *)

\* C25: the coverage reported for a record lies between 0 and 100 percent,
\* and the report of the command line and the report of the server give the
\* same coverage for the same record
C25_CoverageAgrees ==
    extracted # <<>> =>
        /\ coveragePercent(extracted[1]) \in 0..1000
        /\ generateReportCoverage(extracted[1]) \in 0..1000
        /\ generateReportCoverage(extracted[1]) = coveragePercent(extracted[1])

\* the part of C25 the code keeps: the coverage of the command-line report
\* is the share of the counted fields that have an evidence record
C25_CliCoverage ==
    extracted # <<>> =>
        /\ coveragePercent(extracted[1]) \in 0..1000
        /\ C6_EveryFieldCited => coveragePercent(extracted[1]) = 1000

-----------------------------------------------------------------------------
(* Claims about the calls of the AI extractors. *)

\* the call has returned a parsed result or thrown 'All n attempts failed'
Settled == retryPc \in {"returned", "failed"}

\* the attempts made are 1, 2, ... up to MAX_RETRIES at most; each failed
\* attempt k but the last is followed by a wait of min(base * 2^(k-1), 10000)
\* ms; a parsed answer ends the loop; the call fails after MAX_RETRIES
\* failed attempts
RetryShape ==
    /\ Len(attempts) <= maxRetries
    /\ \A k \in 1..Len(attempts) :
          /\ attempts[k].attempt = k
          /\ parses(attempts[k].outcome) => (k = Len(attempts) /\ retryPc = "returned")
          /\ attempts[k].wait =
                IF parses(attempts[k].outcome) \/ k = maxRetries THEN Null
                ELSE Num(Min(backoffBase(client) * Pow2(k - 1), 10000))
    /\ retryPc = "returned" =>
          (attempts # <<>> /\ parses(attempts[Len(attempts)].outcome))
    /\ retryPc = "failed" => Len(attempts) = maxRetries

\* an attempt whose timer has fired is aborted and counted as failed
TimedOutFails ==
    /\ ~(retryPc = "request" /\ timerFired)
    /\ \A k \in 1..Len(attempts) : attempts[k].late => attempts[k].outcome = "timeout"

\* C24: an attempt whose request has not completed within TIMEOUT_MS is
\* aborted and counted as failed, at most MAX_RETRIES attempts are made with
\* a wait of min(base * 2^(k-1), 10000) ms after failed attempt k (none after
\* the last), the first parsed answer ends the loop, and the call always
\* eventually returns a parsed result or fails with 'all attempts failed'
C24_TimeoutAndRetry == []RetryShape /\ []TimedOutFails /\ <>Settled

\* the part of C24 both clients keep: the attempts, the waits and the end of
\* the loop
C24_RetryShape == RetryShape

\* a call of six attempts whose fifth wait reached the cap
C24_ShapeCase ==
    /\ retryPc = "failed"
    /\ Len(attempts) = MaxRetries
    /\ attempts[MaxRetries - 1].wait = Num(BackoffCap)
    /\ attempts[1].wait # Num(BackoffCap)

\* the part of C24 the local client keeps: its timer aborts the request, and
\* its call always settles
C24_LocalSettles == (client = "local") => ([]TimedOutFails /\ <>Settled)

=============================================================================
